---- MODULE Spec2Model ----
(***************************************************************************)
(* Keybinding resolution engine of vs/platform/keybinding:                 *)
(*   KeybindingResolver (combine, index construction, resolve, lookups),   *)
(*   AbstractKeybindingService (_dispatch, resolve, chord state) and       *)
(*   WorkbenchKeybindingService (cached resolver, invalidation).           *)
(*                                                                         *)
(* Representation.                                                         *)
(*   key-press (SimpleKeybinding.value)  a number of KeyPresses            *)
(*   Keybinding                          <<k>> or <<k1, k2>> (a chord)      *)
(*   null Keybinding / keybinding 0      <<>>                               *)
(*   ContextKeyExpr                      <<S>>, S the set of its clauses    *)
(*   null ContextKeyExpr                 <<>>                               *)
(*   command id (a string)               the sequence of its characters,   *)
(*                                       the id proper taken as one symbol: *)
(*                                       <<"^", "X">> is "^X", <<>> is ""   *)
(*   T | null                            <<>> (null) or <<t>>               *)
(***************************************************************************)
EXTENDS Naturals, Sequences, FiniteSets

VARIABLES
    registry,        \* KeybindingsRegistry: the default IKeybindingItems, in order
    userConfig,      \* userKeybindings.getConfig(): the user's items, in order
    cachedResolver,  \* WorkbenchKeybindingService._cachedResolver
    currentChord,    \* AbstractKeybindingService._currentChord
    statusService,   \* whether a status service was passed to the constructor
    out              \* what the most recent call returned and did

vars == <<registry, userConfig, cachedResolver, currentChord, statusService, out>>

----------------------------------------------------------------------------
(* Bounds of the model *)

MaxDefaults == 2
MaxOverrides == 2
MaxRules == 2

----------------------------------------------------------------------------
(* Values *)

CaretChar == "^"
MinusChar == "-"

KeyPresses == {1, 2, 3}
ModifierKeys == {3}

\* SimpleKeybinding.isModifierKey
isModifierKey(keypress) == keypress \in ModifierKeys

\* Keybinding.isChord, extractFirstPart, extractChordPart, equals
isChord(keybinding) == Len(keybinding) = 2
extractFirstPart(keybinding) == keybinding[1]
extractChordPart(keybinding) == keybinding[2]
keybindingEquals(a, b) == a = b

\* createKeybinding: the Keybinding object of a non-zero keybinding number
createKeybinding(value) == value

\* ContextKeyExpr: a conjunction of clauses
normalize(expr) == expr
serializedClauses(expr) == expr
whenEquals(a, b) == serializedClauses(a) = serializedClauses(b)
evaluate(expr, context) == \A clause \in expr : clause \in context

Contexts == SUBSET {"a", "b"}

\* all sequences over S of length at most n
RECURSIVE ListsUpTo(_, _)
ListsUpTo(S, n) ==
    IF n = 0 THEN {<<>>}
    ELSE LET shorter == ListsUpTo(S, n - 1)
         IN  shorter \cup {Append(l, e) : l \in {s \in shorter : Len(s) = n - 1}, e \in S}

----------------------------------------------------------------------------
(* NormalizedKeybindingItem *)

NormalizedKeybindingItemMutBubble(keybinding, command, commandArgs, when, isDefault) ==
    [keybinding |-> keybinding, bubble |-> FALSE, command |-> command,
     commandArgs |-> commandArgs, when |-> when, isDefault |-> isDefault]

\* constructor
NormalizedKeybindingItem(keybinding, command, commandArgs, when, isDefault) ==
    LET bubble == IF command # <<>> THEN Head(command) = CaretChar ELSE FALSE
    IN  [keybinding  |-> keybinding,
         bubble      |-> bubble,
         command     |-> IF bubble THEN Tail(command) ELSE command,
         commandArgs |-> commandArgs,
         when        |-> when,
         isDefault   |-> isDefault]

fromKeybindingItem(source, isDefault) ==
    LET when == IF source.when # <<>> THEN <<normalize(source.when[1])>> ELSE <<>>
        keybinding == IF source.keybinding # <<>>
                      THEN createKeybinding(source.keybinding) ELSE <<>>
    IN  NormalizedKeybindingItem(keybinding, source.command, source.commandArgs,
                                 when, isDefault)

\* items.map(k => NormalizedKeybindingItem.fromKeybindingItem(k, isDefault))
mapFromKeybindingItem(items, isDefault) ==
    [i \in 1..Len(items) |-> fromKeybindingItem(items[i], isDefault)]

----------------------------------------------------------------------------
(* KeybindingResolver.combine *)

_isTargetedForRemovalMutAnyWhen(defaultKb, keybinding, command, when) ==
    /\ defaultKb.command = command
    /\ ~(keybinding # <<>> /\ ~keybindingEquals(keybinding, defaultKb.keybinding))

_isTargetedForRemoval(defaultKb, keybinding, command, when) ==
    IF defaultKb.command # command THEN FALSE
    ELSE IF keybinding # <<>> /\ ~keybindingEquals(keybinding, defaultKb.keybinding) THEN FALSE
    ELSE IF when # <<>>
         THEN IF defaultKb.when = <<>> THEN FALSE
              ELSE IF ~whenEquals(when[1], defaultKb.when[1]) THEN FALSE
              ELSE TRUE
         ELSE TRUE

\* arr.splice(j, 1), j counted from 1
splice(arr, j) == [i \in 1..(Len(arr) - 1) |-> IF i < j THEN arr[i] ELSE arr[i + 1]]

\* the inner loop stopping at the first rule it removes
removeTargetedMutFirstOnly(defaults, j, keybindingToRemove, commandToRemove, whenToRemove) ==
    LET targeted == {i \in 1..j : _isTargetedForRemoval(defaults[i], keybindingToRemove,
                                                        commandToRemove, whenToRemove)}
    IN  IF targeted = {} THEN defaults
        ELSE splice(defaults, CHOOSE i \in targeted : \A i2 \in targeted : i2 <= i)

\* the inner loop of combine: j from the end of defaults down to its start
RECURSIVE removeTargeted(_, _, _, _, _)
removeTargeted(defaults, j, keybindingToRemove, commandToRemove, whenToRemove) ==
    IF j < 1 THEN defaults
    ELSE IF _isTargetedForRemoval(defaults[j], keybindingToRemove, commandToRemove, whenToRemove)
         THEN removeTargeted(splice(defaults, j), j - 1,
                             keybindingToRemove, commandToRemove, whenToRemove)
         ELSE removeTargeted(defaults, j - 1,
                             keybindingToRemove, commandToRemove, whenToRemove)

\* the outer loop of combine with a directive that also removes, from the
\* overrides gathered so far, those it is aimed at
RECURSIVE combineFromMutRemovesOverrides(_, _, _, _)
combineFromMutRemovesOverrides(defaults, overrides, rawOverrides, i) ==
    IF i > Len(rawOverrides) THEN defaults \o overrides
    ELSE LET override == rawOverrides[i]
         IN  IF override.command = <<>> \/ Head(override.command) # MinusChar
             THEN combineFromMutRemovesOverrides(defaults, Append(overrides, override),
                                                 rawOverrides, i + 1)
             ELSE combineFromMutRemovesOverrides(
                      removeTargeted(defaults, Len(defaults), override.keybinding,
                                     Tail(override.command), override.when),
                      removeTargeted(overrides, Len(overrides), override.keybinding,
                                     Tail(override.command), override.when),
                      rawOverrides, i + 1)

\* the outer loop of combine, from rawOverrides[i] on
RECURSIVE combineFrom(_, _, _, _)
combineFrom(defaults, overrides, rawOverrides, i) ==
    IF i > Len(rawOverrides) THEN defaults \o overrides
    ELSE LET override == rawOverrides[i]
         IN  IF override.command = <<>> \/ Head(override.command) # MinusChar
             THEN combineFrom(defaults, Append(overrides, override), rawOverrides, i + 1)
             ELSE combineFrom(removeTargeted(defaults, Len(defaults), override.keybinding,
                                             Tail(override.command), override.when),
                              overrides, rawOverrides, i + 1)

\* defaults.slice(1) for defaults.slice(0)
combineMutSliceOne(defaults, rawOverrides) ==
    combineFrom(IF defaults = <<>> THEN <<>> ELSE Tail(defaults), <<>>, rawOverrides, 1)

\* overrides.concat(defaults) for defaults.concat(overrides)
combineMutOverridesFirst(defaults, rawOverrides) ==
    LET all == combineFrom(defaults, <<>>, rawOverrides, 1)
        kept == Cardinality({i \in 1..Len(rawOverrides) :
                                \/ rawOverrides[i].command = <<>>
                                \/ Head(rawOverrides[i].command) # MinusChar})
    IN  SubSeq(all, Len(all) - kept + 1, Len(all)) \o SubSeq(all, 1, Len(all) - kept)

combine(defaults, rawOverrides) == combineFrom(defaults, <<>>, rawOverrides, 1)

----------------------------------------------------------------------------
(* KeybindingResolver: construction of the index *)

\* whenIsEntirelyIncluded with the parts of `a` and `b` exchanged
whenIsEntirelyIncludedMutSwapped(inNormalizedForm, a0, b0) ==
    LET a == IF inNormalizedForm \/ a0 = <<>> THEN a0 ELSE <<normalize(a0[1])>>
        b == IF inNormalizedForm \/ b0 = <<>> THEN b0 ELSE <<normalize(b0[1])>>
    IN  IF a = <<>> THEN TRUE
        ELSE IF b = <<>> THEN FALSE
        ELSE \A aRule \in serializedClauses(a[1]) : aRule \in serializedClauses(b[1])

\* Returns true if `a` is completely covered by `b` (b is a more relaxed a).
whenIsEntirelyIncluded(inNormalizedForm, a0, b0) ==
    LET a == IF inNormalizedForm \/ a0 = <<>> THEN a0 ELSE <<normalize(a0[1])>>
        b == IF inNormalizedForm \/ b0 = <<>> THEN b0 ELSE <<normalize(b0[1])>>
    IN  IF b = <<>> THEN TRUE
        ELSE IF a = <<>> THEN FALSE
        ELSE \A bRule \in serializedClauses(b[1]) : bRule \in serializedClauses(a[1])

\* A resolver under construction and once constructed. Rules are referred to by
\* their position in allKeybindings (the objects are shared, not copied).
\*   map[k]          this._map[k], <<>> when undefined
\*   chords[k1][k2]  this._chords[k1][k2], <<>> when undefined
\*   lookupMap[c]    this._lookupMap.get(c), <<>> when undefined or empty
\*   warnings        the console.warn calls, in order, as <<conflict, item>>
emptyResolverMutBoundOfAll(defaultKeybindings, allKeybindings) ==
    [defaultKeybindings   |-> defaultKeybindings,
     defaultBoundCommands |-> {allKeybindings[i].command : i \in 1..Len(allKeybindings)},
     allKeybindings       |-> allKeybindings,
     map                  |-> [k \in KeyPresses |-> <<>>],
     chords               |-> [k1 \in KeyPresses |-> [k2 \in KeyPresses |-> <<>>]],
     lookupMap            |-> [c \in {allKeybindings[i].command : i \in 1..Len(allKeybindings)} |-> <<>>],
     warnings             |-> <<>>]

emptyResolver(defaultKeybindings, allKeybindings) ==
    [defaultKeybindings   |-> defaultKeybindings,
     defaultBoundCommands |-> {defaultKeybindings[i].command : i \in 1..Len(defaultKeybindings)},
     allKeybindings       |-> allKeybindings,
     map                  |-> [k \in KeyPresses |-> <<>>],
     chords               |-> [k1 \in KeyPresses |-> [k2 \in KeyPresses |-> <<>>]],
     lookupMap            |-> [c \in {allKeybindings[i].command : i \in 1..Len(allKeybindings)} |-> <<>>],
     warnings             |-> <<>>]

_addToLookupMap(r, item) ==
    IF r.allKeybindings[item].command = <<>> THEN r
    ELSE [r EXCEPT !.lookupMap[r.allKeybindings[item].command] = Append(@, item)]

_removeFromLookupMap(r, item) ==
    LET command == r.allKeybindings[item].command
        arr == r.lookupMap[command]
    IN  IF \E i \in 1..Len(arr) : arr[i] = item
        THEN [r EXCEPT !.lookupMap[command] =
                 splice(arr, CHOOSE i \in 1..Len(arr) :
                                 arr[i] = item /\ \A j \in 1..(i - 1) : arr[j] # item)]
        ELSE r

\* the loop of _addKeyPress without its skip of a conflict of the same command
RECURSIVE markConflictsMutSameCommand(_, _, _, _, _)
markConflictsMutSameCommand(r, conflicts, i, item, shouldWarnOnConflict) ==
    IF i < 1 THEN r
    ELSE LET conflict == r.allKeybindings[conflicts[i]]
             it == r.allKeybindings[item]
             rest(s) == markConflictsMutSameCommand(s, conflicts, i - 1, item,
                                                    shouldWarnOnConflict)
         IN  IF isChord(conflict.keybinding) /\ isChord(it.keybinding)
                /\ conflict.keybinding # it.keybinding
             THEN rest(r)
             ELSE IF whenIsEntirelyIncluded(TRUE, conflict.when, it.when)
             THEN LET warned == IF shouldWarnOnConflict /\ it.isDefault
                                THEN [r EXCEPT !.warnings = Append(@, <<conflicts[i], item>>)]
                                ELSE r
                  IN  rest(_removeFromLookupMap(warned, conflicts[i]))
             ELSE rest(r)

\* the loop of _addKeyPress, warning of a default that an override covers
RECURSIVE markConflictsMutWarnOverride(_, _, _, _, _)
markConflictsMutWarnOverride(r, conflicts, i, item, shouldWarnOnConflict) ==
    IF i < 1 THEN r
    ELSE LET conflict == r.allKeybindings[conflicts[i]]
             it == r.allKeybindings[item]
             rest(s) == markConflictsMutWarnOverride(s, conflicts, i - 1, item,
                                                     shouldWarnOnConflict)
         IN  IF conflict.command = it.command
             THEN rest(r)
             ELSE IF isChord(conflict.keybinding) /\ isChord(it.keybinding)
                     /\ conflict.keybinding # it.keybinding
             THEN rest(r)
             ELSE IF whenIsEntirelyIncluded(TRUE, conflict.when, it.when)
             THEN LET warned == IF shouldWarnOnConflict /\ conflict.isDefault /\ ~it.isDefault
                                THEN [r EXCEPT !.warnings = Append(@, <<conflicts[i], item>>)]
                                ELSE r
                  IN  rest(_removeFromLookupMap(warned, conflicts[i]))
             ELSE rest(r)

\* the loop of _addKeyPress over conflicts[i], i from the end down to the start
RECURSIVE markConflicts(_, _, _, _, _)
markConflicts(r, conflicts, i, item, shouldWarnOnConflict) ==
    IF i < 1 THEN r
    ELSE LET conflict == r.allKeybindings[conflicts[i]]
             it == r.allKeybindings[item]
         IN  IF conflict.command = it.command
             THEN markConflicts(r, conflicts, i - 1, item, shouldWarnOnConflict)
             ELSE IF isChord(conflict.keybinding) /\ isChord(it.keybinding)
                     /\ conflict.keybinding # it.keybinding
             THEN markConflicts(r, conflicts, i - 1, item, shouldWarnOnConflict)
             ELSE IF whenIsEntirelyIncluded(TRUE, conflict.when, it.when)
             THEN LET warned == IF shouldWarnOnConflict /\ it.isDefault
                                THEN [r EXCEPT !.warnings = Append(@, <<conflicts[i], item>>)]
                                ELSE r
                  IN  markConflicts(_removeFromLookupMap(warned, conflicts[i]),
                                    conflicts, i - 1, item, shouldWarnOnConflict)
             ELSE markConflicts(r, conflicts, i - 1, item, shouldWarnOnConflict)

\* _addKeyPress with `conflicts.unshift(item)` for `conflicts.push(item)`
_addKeyPressMutUnshift(r, keypress, item, shouldWarnOnConflict) ==
    IF r.map[keypress] = <<>>
    THEN _addToLookupMap([r EXCEPT !.map[keypress] = <<item>>], item)
    ELSE LET conflicts == r.map[keypress]
             marked == markConflicts(r, conflicts, Len(conflicts), item, shouldWarnOnConflict)
         IN  _addToLookupMap([marked EXCEPT !.map[keypress] = <<item>> \o conflicts], item)

_addKeyPress(r, keypress, item, shouldWarnOnConflict) ==
    IF r.map[keypress] = <<>>
    THEN _addToLookupMap([r EXCEPT !.map[keypress] = <<item>>], item)
    ELSE LET conflicts == r.map[keypress]
             marked == markConflicts(r, conflicts, Len(conflicts), item, shouldWarnOnConflict)
         IN  _addToLookupMap([marked EXCEPT !.map[keypress] = Append(conflicts, item)], item)

\* the loop of the constructor over allKeybindings[i]
RECURSIVE indexFrom(_, _, _)
indexFrom(r, i, shouldWarnOnConflict) ==
    IF i > Len(r.allKeybindings) THEN r
    ELSE LET k == r.allKeybindings[i]
         IN  IF k.keybinding = <<>>
             THEN indexFrom(r, i + 1, shouldWarnOnConflict)
             ELSE IF isChord(k.keybinding)
             THEN LET keybindingFirstPart == extractFirstPart(k.keybinding)
                      keybindingChordPart == extractChordPart(k.keybinding)
                      pushed == [r EXCEPT !.chords[keybindingFirstPart][keybindingChordPart] =
                                              Append(@, i)]
                  IN  indexFrom(_addKeyPress(pushed, keybindingFirstPart, i, shouldWarnOnConflict),
                                i + 1, shouldWarnOnConflict)
             ELSE indexFrom(_addKeyPress(r, k.keybinding[1], i, shouldWarnOnConflict),
                            i + 1, shouldWarnOnConflict)

\* constructor
KeybindingResolver(defaultKeybindings, overrides, shouldWarnOnConflict) ==
    indexFrom(emptyResolver(defaultKeybindings, combine(defaultKeybindings, overrides)),
              1, shouldWarnOnConflict)

----------------------------------------------------------------------------
(* KeybindingResolver: queries *)

\* contextMatchesRules without the evaluation of the condition
contextMatchesRulesMutAlways(context, rules) == TRUE

contextMatchesRules(context, rules) ==
    IF rules = <<>> THEN TRUE ELSE evaluate(rules[1], context)

\* the loop of _findCommand over matches[i], i from the end down to the start;
\* 0 is null
RECURSIVE findFrom(_, _, _, _)
findFrom(r, context, matches, i) ==
    IF i < 1 THEN 0
    ELSE IF ~contextMatchesRules(context, r.allKeybindings[matches[i]].when)
         THEN findFrom(r, context, matches, i - 1)
         ELSE matches[i]

_findCommandMutFirst(r, context, matches) ==
    IF \E i \in 1..Len(matches) : contextMatchesRules(context, r.allKeybindings[matches[i]].when)
    THEN matches[CHOOSE i \in 1..Len(matches) :
                    /\ contextMatchesRules(context, r.allKeybindings[matches[i]].when)
                    /\ \A j \in 1..(i - 1) :
                          ~contextMatchesRules(context, r.allKeybindings[matches[j]].when)]
    ELSE 0

_findCommand(r, context, matches) ==
    IF matches = <<>> THEN 0 ELSE findFrom(r, context, matches, Len(matches))

NoChord == 0

\* resolve looking in the flat bucket whether or not a chord is pending
resolveMatchMutFlat(r, context, chord, keypress) == _findCommand(r, context, r.map[keypress])

\* the rule resolve settles on (its local `result`), 0 when it returns through
\* one of its `return null`
resolveMatch(r, context, chord, keypress) ==
    IF chord # NoChord
    THEN IF \A k \in KeyPresses : r.chords[chord][k] = <<>>
         THEN 0
         ELSE _findCommand(r, context, r.chords[chord][keypress])
    ELSE _findCommand(r, context, r.map[keypress])

\* resolve without its test of the rule being a chord
resolveMutNoChord(r, context, chord, keypress) ==
    LET result == resolveMatch(r, context, chord, keypress)
    IN  IF result = 0 THEN <<>>
        ELSE <<[enterChord  |-> NoChord,
                commandId   |-> <<r.allKeybindings[result].command>>,
                commandArgs |-> r.allKeybindings[result].commandArgs,
                bubble      |-> r.allKeybindings[result].bubble]>>

\* resolve: <<>> is null, otherwise <<IResolveResult>>; a null commandId or
\* commandArgs is <<>>
resolve(r, context, chord, keypress) ==
    LET result == resolveMatch(r, context, chord, keypress)
    IN  IF result = 0 THEN <<>>
        ELSE IF chord = NoChord /\ isChord(r.allKeybindings[result].keybinding)
        THEN <<[enterChord  |-> keypress,
                commandId   |-> <<>>,
                commandArgs |-> <<>>,
                bubble      |-> FALSE]>>
        ELSE <<[enterChord  |-> NoChord,
                commandId   |-> <<r.allKeybindings[result].command>>,
                commandArgs |-> r.allKeybindings[result].commandArgs,
                bubble      |-> r.allKeybindings[result].bubble]>>

\* lookupKeybindings without the reversal
lookupKeybindingsMutNoReverse(r, commandId) ==
    IF commandId \notin DOMAIN r.lookupMap THEN <<>> ELSE r.lookupMap[commandId]

\* lookupKeybindings: the rules, most recently inserted first
lookupKeybindings(r, commandId) ==
    IF commandId \notin DOMAIN r.lookupMap THEN <<>>
    ELSE LET items == r.lookupMap[commandId]
         IN  [i \in 1..Len(items) |-> items[Len(items) + 1 - i]]

\* lookupPrimaryKeybinding: 0 is null
lookupPrimaryKeybinding(r, commandId) ==
    IF commandId \notin DOMAIN r.lookupMap \/ r.lookupMap[commandId] = <<>> THEN 0
    ELSE r.lookupMap[commandId][Len(r.lookupMap[commandId])]

\* the resolver with the lists of its by-command lookup reversed in place
afterQueryMutReversed(r) ==
    [r EXCEPT !.lookupMap = [c \in DOMAIN r.lookupMap |->
                                [i \in 1..Len(r.lookupMap[c]) |->
                                    r.lookupMap[c][Len(r.lookupMap[c]) + 1 - i]]]]

\* the resolver as resolve, _findCommand, lookupKeybindings,
\* lookupPrimaryKeybinding and getDefaultKeybindings leave it: they assign to
\* no field of it and to no element of its arrays (lookupKeybindings fills
\* an array of its own)
afterQuery(r) == r

----------------------------------------------------------------------------
(* The text of the default rules *)

\* A text is the sequence of its lines, a line the sequence of its pieces:
\* key names, command characters, clauses, and the fixed pieces of the
\* template.

\* KeybindingLabels.toUserSettingsLabel on one key-press
nameOfKey(key) ==
    CASE key = 1 -> "k1"
      [] key = 2 -> "k2"
      [] key = 3 -> "ctrl"
      [] OTHER -> ""

\* the number of characters of a key name
lengthOfName(name) ==
    CASE name = "k1" -> 2
      [] name = "k2" -> 2
      [] name = "ctrl" -> 4
      [] OTHER -> 0

\* array.join(separator)
RECURSIVE join(_, _)
join(array, separator) ==
    IF array = <<>> THEN <<>>
    ELSE IF Len(array) = 1 THEN <<array[1]>>
    ELSE <<array[1], separator>> \o join(Tail(array), separator)

\* IOSupport.writeKeybinding: the key names of a keybinding, a space between
\* the two of a chord
writeKeybinding(keybinding) ==
    join([i \in 1..Len(keybinding) |-> nameOfKey(keybinding[i])], " ")

\* the number of characters of a label
RECURSIVE lengthOfLabel(_)
lengthOfLabel(label) ==
    IF label = <<>> THEN 0
    ELSE (IF Head(label) = " " THEN 1 ELSE lengthOfName(Head(label)))
         + lengthOfLabel(Tail(label))

\* ContextKeyExpr.serialize: the clauses in their order, && between them
serialize(expr) ==
    join(SelectSeq(<<"a", "b">>, LAMBDA clause : clause \in expr), " && ")

\* JSON.stringify of a string
stringify(str) == <<"\"">> \o str \o <<"\"">>

\* rightPaddedString of a string of `length` characters: `new Array(n).join(' ')`
\* is n - 1 spaces
rightPaddedString(str, length, minChars) ==
    IF length < minChars
    THEN str \o [i \in 1..(minChars - length - 1) |-> " "]
    ELSE str

\* OutputBuilder
newOutputBuilder == [_lines |-> <<>>, _currentLine |-> <<>>]
write(builder, str) == [builder EXCEPT !._currentLine = @ \o str]
writeLine(builder, str) ==
    [_lines |-> Append(builder._lines, builder._currentLine \o str), _currentLine |-> <<>>]
toString(builder) == writeLine(builder, <<>>)._lines

KeyColumn == 25

\* IOSupport.writeKeybindingItem
writeKeybindingItem(builder, item) ==
    LET quotedSerializedKeybinding == stringify(writeKeybinding(item.keybinding))
        key == write(builder,
                     <<"{ \"key\": ">>
                     \o rightPaddedString(quotedSerializedKeybinding \o <<",">>,
                                          lengthOfLabel(writeKeybinding(item.keybinding)) + 3,
                                          KeyColumn)
                     \o <<" \"command\": ">>)
        serializedWhen == IF item.when # <<>> THEN serialize(item.when[1]) ELSE <<>>
        quotedSerializeCommand == stringify(item.command)
        command == IF Len(serializedWhen) > 0
                   THEN write(writeLine(write(key, quotedSerializeCommand \o <<",">>), <<>>),
                              <<"                                     \"when\": \"">>
                              \o serializedWhen \o <<"\" ">>)
                   ELSE write(key, quotedSerializeCommand \o <<" ">>)
    IN  write(command, <<"}">>)

\* the forEach of getDefaultKeybindings, from the rule of `index` on
RECURSIVE writeItemsFrom(_, _, _)
writeItemsFrom(builder, defaultKeybindings, index) ==
    IF index > Len(defaultKeybindings) THEN builder
    ELSE LET written == writeKeybindingItem(builder, defaultKeybindings[index])
         IN  writeItemsFrom(IF index # Len(defaultKeybindings)
                            THEN writeLine(written, <<",">>)
                            ELSE writeLine(written, <<>>),
                            defaultKeybindings, index + 1)

\* getDefaultKeybindings over every rule of the resolver, the overrides too
getDefaultKeybindingsMutAll(r) ==
    toString(writeLine(writeItemsFrom(writeLine(newOutputBuilder, <<"[">>),
                                      r.allKeybindings, 1), <<"]">>))

\* KeybindingResolver.getDefaultKeybindings
getDefaultKeybindings(r) ==
    toString(writeLine(writeItemsFrom(writeLine(newOutputBuilder, <<"[">>),
                                      r.defaultKeybindings, 1), <<"]">>))

----------------------------------------------------------------------------
(* IOSupport.readKeybindingItem: the user's records *)

\* An IUserFriendlyKeybinding is [key, command, when, args]; key is <<>> (not a
\* string) or <<label>>, a label being the sequence of its key names; when is
\* <<>> or <<text>>, a text being the sequence of its clauses.

\* KeybindingLabels.fromUserSettingsLabel on one key name; 0 when it names no key
keyOfName(name) ==
    CASE name = "k1" -> 1
      [] name = "k2" -> 2
      [] name = "ctrl" -> 3
      [] OTHER -> 0

\* IOSupport.readKeybinding: <<>> is the keybinding number 0
readKeybinding(label) ==
    IF Len(label) \notin {1, 2} \/ \E i \in 1..Len(label) : keyOfName(label[i]) = 0
    THEN <<>>
    ELSE [i \in 1..Len(label) |-> keyOfName(label[i])]

\* ContextKeyExpr.deserialize
deserialize(text) ==
    IF text = <<>> THEN <<>> ELSE <<{text[i] : i \in 1..Len(text)}>>

readKeybindingItem(input, index) ==
    [keybinding  |-> IF input.key # <<>> THEN readKeybinding(input.key[1]) ELSE <<>>,
     command     |-> input.command,
     commandArgs |-> input.args,
     when        |-> IF input.when # <<>> THEN deserialize(input.when[1]) ELSE <<>>]

----------------------------------------------------------------------------
(* WorkbenchKeybindingService: the cached resolver *)

\* _getExtraKeybindings
_getExtraKeybindings(config) ==
    [i \in 1..Len(config) |-> readKeybindingItem(config[i], i - 1)]

\* the resolver _getResolver builds when none is cached
newResolver ==
    LET defaults == mapFromKeybindingItem(registry, TRUE)
        overrides == mapFromKeybindingItem(_getExtraKeybindings(userConfig), FALSE)
    IN  KeybindingResolver(defaults, overrides, TRUE)

\* _getResolver: the resolver it returns, which is cached from then on
_getResolver == IF cachedResolver = <<>> THEN newResolver ELSE cachedResolver[1]

\* _getResolver constructing a resolver when it holds one
builtMutInverted == IF cachedResolver = <<>> THEN 0 ELSE 1

\* the number of resolvers _getResolver constructs in a call
built == IF cachedResolver = <<>> THEN 1 ELSE 0

----------------------------------------------------------------------------
(* AbstractKeybindingService: resolve and _dispatch *)

EmptyObject == "{}"

\* Argument values are written as their JSON text; these are the falsy ones
\* among those a rule may carry (null is <<>>).
FalsyValues == {"0", "false"}

\* a || b
orElse(a, b) == IF a = <<>> \/ a[1] \in FalsyValues THEN b ELSE a[1]

\* executedBy with executeCommand called whatever the command id is
executedByMutAnyCommand(resolveResult) ==
    IF resolveResult # <<>> /\ resolveResult[1].commandId # <<>>
    THEN <<  <<resolveResult[1].commandId[1],
               orElse(resolveResult[1].commandArgs, EmptyObject)>>  >>
    ELSE <<>>

\* the calls of executeCommand a _dispatch makes, as <<commandId, args>>
executedBy(resolveResult) ==
    IF resolveResult # <<>> /\ resolveResult[1].commandId \notin {<<>>, <<<<>>>>}
    THEN <<  <<resolveResult[1].commandId[1],
               orElse(resolveResult[1].commandArgs, EmptyObject)>>  >>
    ELSE <<>>

\* `if (resolveResult.bubble)` for `if (!resolveResult.bubble)`
shouldPreventDefaultMutBubble(resolveResult, chord) ==
    IF resolveResult # <<>> /\ resolveResult[1].enterChord # NoChord
    THEN TRUE
    ELSE \/ /\ statusService /\ chord # NoChord
            /\ (resolveResult = <<>> \/ resolveResult[1].commandId \in {<<>>, <<<<>>>>})
         \/ /\ resolveResult # <<>> /\ resolveResult[1].commandId \notin {<<>>, <<<<>>>>}
            /\ resolveResult[1].bubble

\* the value _dispatch returns for a key-press that is no modifier key
shouldPreventDefault(resolveResult, chord) ==
    IF resolveResult # <<>> /\ resolveResult[1].enterChord # NoChord
    THEN TRUE
    ELSE \/ /\ statusService /\ chord # NoChord
            /\ (resolveResult = <<>> \/ resolveResult[1].commandId \in {<<>>, <<<<>>>>})
         \/ /\ resolveResult # <<>> /\ resolveResult[1].commandId \notin {<<>>, <<<<>>>>}
            /\ ~resolveResult[1].bubble

\* this._currentChord = null left out
currentChordAfterMutKeep(resolveResult, chord) ==
    IF resolveResult # <<>> /\ resolveResult[1].enterChord # NoChord
    THEN resolveResult[1].enterChord
    ELSE chord

\* this._currentChord when _dispatch returns, for a key-press that is no modifier key
currentChordAfter(resolveResult, chord) ==
    IF resolveResult # <<>> /\ resolveResult[1].enterChord # NoChord
    THEN resolveResult[1].enterChord
    ELSE NoChord

\* AbstractKeybindingService.resolve, called from outside
Resolve(keybinding, context) ==
    /\ IF isModifierKey(keybinding)
       THEN /\ out' = [op |-> "resolve", built |-> 0, keybinding |-> keybinding, context |-> context,
                       chordBefore |-> currentChord, matched |-> 0, resolveResult |-> <<>>]
            /\ UNCHANGED cachedResolver
       ELSE LET resolver == _getResolver
            IN  /\ cachedResolver' = <<afterQuery(resolver)>>
                /\ out' = [op |-> "resolve", built |-> built, keybinding |-> keybinding, context |-> context,
                           chordBefore |-> currentChord,
                           matched |-> resolveMatch(resolver, context, currentChord, keybinding),
                           resolveResult |-> resolve(resolver, context, currentChord, keybinding)]
    /\ UNCHANGED <<registry, userConfig, currentChord, statusService>>

dispatchModifierKeyMutEndsChord(keybinding, context) ==
    /\ out' = [op |-> "dispatch", built |-> 0, keybinding |-> keybinding, context |-> context,
               chordBefore |-> currentChord, matched |-> 0, resolveResult |-> <<>>,
               shouldPreventDefault |-> FALSE, executed |-> <<>>]
    /\ currentChord' = NoChord
    /\ UNCHANGED cachedResolver

\* _dispatch of a modifier key: its early return
dispatchModifierKey(keybinding, context) ==
    /\ out' = [op |-> "dispatch", built |-> 0, keybinding |-> keybinding, context |-> context,
               chordBefore |-> currentChord, matched |-> 0, resolveResult |-> <<>>,
               shouldPreventDefault |-> FALSE, executed |-> <<>>]
    /\ UNCHANGED <<cachedResolver, currentChord>>

\* _dispatch, from the KEY_DOWN listener
_dispatch(keybinding, context) ==
    /\ IF isModifierKey(keybinding)
       THEN dispatchModifierKey(keybinding, context)
       ELSE LET resolver == _getResolver
                resolveResult == resolve(resolver, context, currentChord, keybinding)
            IN  /\ cachedResolver' = <<afterQuery(resolver)>>
                /\ currentChord' = currentChordAfter(resolveResult, currentChord)
                /\ out' = [op |-> "dispatch", built |-> built, keybinding |-> keybinding, context |-> context,
                           chordBefore |-> currentChord,
                           matched |-> resolveMatch(resolver, context, currentChord, keybinding),
                           resolveResult |-> resolveResult,
                           shouldPreventDefault |-> shouldPreventDefault(resolveResult, currentChord),
                           executed |-> executedBy(resolveResult)]
    /\ UNCHANGED <<registry, userConfig, statusService>>

\* updateResolver without `this._cachedResolver = null`
updateResolverMutKeepsCache(source) ==
    /\ cachedResolver' = cachedResolver
    /\ out' = [op |-> "updateResolver", source |-> source]

\* updateResolver
updateResolver(source) ==
    /\ cachedResolver' = <<>>
    /\ out' = [op |-> "updateResolver", source |-> source]

\* getDefaultBoundCommands
getDefaultBoundCommands(r) == r.defaultBoundCommands

\* AbstractKeybindingService.lookupKeybindings: `items` are the rules the
\* resolver returns, `result` their keybindings
lookupKeybindingsOf(commandId) ==
    LET resolver == _getResolver
        items == lookupKeybindings(resolver, commandId)
    IN  /\ cachedResolver' = <<afterQuery(resolver)>>
        /\ out' = [op |-> "lookupKeybindings", built |-> built, commandId |-> commandId, items |-> items,
                   result |-> [i \in 1..Len(items) |->
                                  resolver.allKeybindings[items[i]].keybinding]]
        /\ UNCHANGED <<registry, userConfig, currentChord, statusService>>

\* AbstractKeybindingService.lookupKeybinding: `item` is the rule the resolver
\* returns (0 is null), `result` its keybinding (<<>> is null)
lookupKeybinding(commandId) ==
    LET resolver == _getResolver
        item == lookupPrimaryKeybinding(resolver, commandId)
    IN  /\ cachedResolver' = <<afterQuery(resolver)>>
        /\ out' = [op |-> "lookupKeybinding", built |-> built, commandId |-> commandId, item |-> item,
                   result |-> IF item = 0 THEN <<>>
                              ELSE resolver.allKeybindings[item].keybinding]
        /\ UNCHANGED <<registry, userConfig, currentChord, statusService>>

\* CommandsRegistry.getCommands(): the public commands without arguments, in
\* the order of their ids
RegisteredCommands == <<<<"X">>, <<"Y">>, <<"Z">>>>

\* _getAllCommandsAsComment: the sorted ids of the commands no default binds
_getAllCommandsAsComment(resolver) ==
    SelectSeq(RegisteredCommands,
              LAMBDA id : id \notin getDefaultBoundCommands(resolver))

\* AbstractKeybindingService.getDefaultKeybindings: `text` is what the resolver
\* renders, `unboundCommands` the ids listed in the comment after it
getDefaultKeybindingsOfService ==
    LET resolver == _getResolver
    IN  /\ cachedResolver' = <<afterQuery(resolver)>>
        /\ out' = [op |-> "getDefaultKeybindings", built |-> built,
                   text |-> getDefaultKeybindings(resolver),
                   unboundCommands |-> _getAllCommandsAsComment(resolver)]
        /\ UNCHANGED <<registry, userConfig, currentChord, statusService>>

----------------------------------------------------------------------------
(* The service: its sources, its construction and its handlers *)

NoArgs == <<>>
NoWhen == <<>>

\* the default rules the registry may hold: single keys and chords, commands
\* that bubble, a rule with a condition, a rule on a modifier key
RegistryItems ==
    [keybinding : {<<1>>, <<1, 2>>}, command : {<<"X">>, <<"^", "Y">>},
     commandArgs : {NoArgs}, when : {NoWhen}]
    \cup {[keybinding |-> <<1>>, command |-> <<"X">>, commandArgs |-> NoArgs, when |-> <<{"a"}>>],
          [keybinding |-> <<3>>, command |-> <<"X">>, commandArgs |-> NoArgs, when |-> NoWhen]}

\* the records keybindings.json may hold: rules on a single key with and without
\* a condition, on a chord and with no key, an empty command, removal directives
UserRecords ==
    [key : {<< <<"k1">> >>}, command : {<<"Z">>},
     when : {<<>>, << <<"a">> >>}, args : {NoArgs}]
    \cup [key : {<<>>, << <<"k1", "k2">> >>}, command : {<<"Z">>},
          when : {<<>>}, args : {NoArgs}]
    \cup [key : {<< <<"k1">> >>}, command : {<<>>},
          when : {<<>>}, args : {NoArgs}]
    \cup [key : {<<>>, << <<"k1">> >>}, command : {<<"-", "X">>},
          when : {<<>>}, args : {NoArgs}]

ServiceContexts == SUBSET {"a"}

\* the service once constructed, over registries of `items` and files of `records`
Constructed(items, records) ==
    /\ registry \in ListsUpTo(items, MaxRules)
    /\ userConfig \in ListsUpTo(records, MaxRules - Len(registry))
    /\ cachedResolver = <<>>
    /\ currentChord = NoChord
    /\ statusService \in BOOLEAN
    /\ out = [op |-> "constructor"]

Init == Constructed(RegistryItems, UserRecords)

\* the KEY_DOWN listener
KeyDown(contexts) ==
    \E keybinding \in KeyPresses, context \in contexts :
        _dispatch(keybinding, context)

\* a caller of the public resolve
ResolveCall(contexts) ==
    \E keybinding \in KeyPresses, context \in contexts :
        Resolve(keybinding, context)

\* userKeybindings.onDidUpdateConfiguration: keybindings.json has changed, a
\* record having been added at its end or one of its records removed
UserConfigReload(records) ==
    \E config \in {Append(userConfig, record) :
                       record \in {u \in records : Len(registry) + Len(userConfig) < MaxRules}}
                  \cup {splice(userConfig, i) : i \in 1..Len(userConfig)} :
        /\ userConfig' = config
        /\ updateResolver("User")
        /\ UNCHANGED <<registry, currentChord, statusService>>

\* the handler of keybindingsExtPoint, with a contribution that adds a rule
ExtensionPoint(items) ==
    \E rule \in items :
        /\ Len(registry) + Len(userConfig) < MaxRules
        /\ registry' = Append(registry, rule)
        /\ updateResolver("Default")
        /\ UNCHANGED <<userConfig, currentChord, statusService>>

Next ==
    \/ KeyDown(ServiceContexts)
    \/ ResolveCall(ServiceContexts)
    \/ UserConfigReload(UserRecords)
    \/ ExtensionPoint(RegistryItems)

Spec == Init /\ [][Next]_vars

----------------------------------------------------------------------------
(* The service over rules that share a key-press: conditions that include one
   another, chords with the same first key-press, records with a key that
   names no key *)

IndexItems ==
    {[keybinding |-> <<1>>, command |-> <<"X">>, commandArgs |-> NoArgs, when |-> NoWhen],
     [keybinding |-> <<1>>, command |-> <<"X">>, commandArgs |-> NoArgs, when |-> <<{"a"}>>],
     [keybinding |-> <<1>>, command |-> <<"Y">>, commandArgs |-> NoArgs, when |-> <<{"a"}>>],
     [keybinding |-> <<1>>, command |-> <<"Y">>, commandArgs |-> NoArgs, when |-> <<{"a", "b"}>>],
     [keybinding |-> <<1, 2>>, command |-> <<"X">>, commandArgs |-> NoArgs, when |-> NoWhen],
     [keybinding |-> <<1, 2>>, command |-> <<"Y">>, commandArgs |-> NoArgs, when |-> <<{"a"}>>],
     [keybinding |-> <<1, 1>>, command |-> <<"Y">>, commandArgs |-> NoArgs, when |-> NoWhen]}

IndexRecords ==
    [key : {<< <<"k1">> >>}, command : {<<"Z">>},
     when : {<<>>, << <<"a">> >>}, args : {NoArgs}]
    \cup [key : {<< <<"k1", "k2">> >>}, command : {<<"Z">>}, when : {<<>>}, args : {NoArgs}]
    \cup [key : {<< <<"k1">> >>}, command : {<<>>}, when : {<<>>}, args : {NoArgs}]
    \cup [key : {<< <<"k9">> >>}, command : {<<"Z">>, <<"-", "X">>},
          when : {<<>>}, args : {NoArgs}]

IndexContexts == {{}, {"a"}, {"a", "b"}}

IndexCommands == {<<"X">>, <<"Y">>, <<"Z">>, <<>>}

InitIndex == Constructed(IndexItems, IndexRecords)

\* callers of lookupKeybindings and of lookupKeybinding
LookupKeybindings(commands) == \E commandId \in commands : lookupKeybindingsOf(commandId)
LookupKeybinding(commands) == \E commandId \in commands : lookupKeybinding(commandId)

NextIndex ==
    \/ KeyDown(IndexContexts)
    \/ LookupKeybindings(IndexCommands)
    \/ LookupKeybinding(IndexCommands)
    \/ UserConfigReload(IndexRecords)
    \/ ExtensionPoint(IndexItems)

SpecIndex == InitIndex /\ [][NextIndex]_vars

----------------------------------------------------------------------------
(* The service whose default rules are rendered *)

\* defaults on a key, on a chord and on a modifier key, with no condition,
\* with one clause and with two, one of a command that bubbles
TextItems ==
    {[keybinding |-> <<1>>, command |-> <<"X">>, commandArgs |-> NoArgs, when |-> NoWhen],
     [keybinding |-> <<1, 2>>, command |-> <<"^", "Y">>, commandArgs |-> NoArgs,
      when |-> <<{"a", "b"}>>],
     [keybinding |-> <<3>>, command |-> <<"X">>, commandArgs |-> NoArgs, when |-> <<{"a"}>>]}

\* records that add a rule and that remove the defaults of a command
TextRecords ==
    [key : {<< <<"k1">> >>}, command : {<<"Z">>, <<"-", "X">>}, when : {<<>>}, args : {NoArgs}]
    \cup [key : {<<>>}, command : {<<"-", "X">>}, when : {<<>>}, args : {NoArgs}]

InitText == Constructed(TextItems, TextRecords)

\* a caller of getDefaultKeybindings
GetDefaultKeybindings == getDefaultKeybindingsOfService

NextText ==
    \/ KeyDown(ServiceContexts)
    \/ LookupKeybindings({<<"X">>, <<"Z">>})
    \/ GetDefaultKeybindings
    \/ UserConfigReload(TextRecords)
    \/ ExtensionPoint(TextItems)

SpecText == InitText /\ [][NextText]_vars

----------------------------------------------------------------------------
(* The service over rules that carry arguments *)

ArgsItems ==
    [keybinding : {<<1>>}, command : {<<"X">>, <<"^", "Y">>},
     commandArgs : {NoArgs, <<"[1]">>}, when : {NoWhen}]
    \cup {[keybinding |-> <<1, 2>>, command |-> <<"X">>, commandArgs |-> <<"[1]">>,
           when |-> NoWhen]}

ArgsRecords ==
    [key : {<< <<"k1">> >>}, command : {<<"Z">>}, when : {<<>>},
     args : {NoArgs, <<"[1]">>, <<"0">>, <<"false">>}]
    \cup [key : {<< <<"k1">> >>, << <<"k1", "k2">> >>}, command : {<<>>}, when : {<<>>},
          args : {<<"[1]">>}]

InitArgs == Constructed(ArgsItems, ArgsRecords)

NextArgs ==
    \/ KeyDown(ServiceContexts)
    \/ UserConfigReload(ArgsRecords)
    \/ ExtensionPoint(ArgsItems)

SpecArgs == InitArgs /\ [][NextArgs]_vars

----------------------------------------------------------------------------
(* TerminalLinkHandler: the regular expressions of local links *)

\* A string is the sequence of its characters.  A regular expression is a
\* record: "set" and "not" match one character in, or not in, a set; "end"
\* is $; "seq" and "alt" are over a sequence of expressions; "opt", "star"
\* and "plus" are the greedy ?, * and + of an expression.
Chr(c) == [t |-> "set", in |-> {c}]
Lit(str) == [t |-> "seq", of |-> [i \in 1..Len(str) |-> Chr(str[i])]]

Backslash == "\\"

\* the backquote, written by its name
Backquote == "backquote"

\* \s, of the characters a line may hold
Whitespace == {" ", "\t"}

Letters ==
    {"a", "b", "c", "d", "e", "f", "g", "h", "i", "j", "k", "l", "m",
     "n", "o", "p", "q", "r", "s", "t", "u", "v", "w", "x", "y", "z",
     "A", "B", "C", "D", "E", "F", "G", "H", "I", "J", "K", "L", "M",
     "N", "O", "P", "Q", "R", "S", "T", "U", "V", "W", "X", "Y", "Z"}

pathPrefix == [t |-> "alt", of |-> <<[t |-> "seq", of |-> <<Chr("."), [t |-> "opt", of |-> Chr(".")]>>],
                                     Chr("~")>>]
pathSeparatorClause == Chr("/")

\* excludedPathCharactersClause with the colon allowed in a path
excludedPathCharactersClauseMutColon ==
    [t |-> "not", in |-> Whitespace \cup {"!", "$", Backquote, "&", "*", "(", ")", "[", "]",
                                          "+", "'", "\"", ";"}]

\* the characters of a line do not include NUL
excludedPathCharactersClause ==
    [t |-> "not", in |-> Whitespace \cup {"!", "$", Backquote, "&", "*", "(", ")", "[", "]",
                                          "+", "'", "\"", ":", ";"}]

\* in the expression the backslash of \\$ and of \\* is a character of its own,
\* followed by $ and by *, and (|) is a group of two empty alternatives
escapedExcludedPathCharactersClause ==
    [t |-> "alt",
     of |-> <<Lit(<<Backslash, "s">>),
              Lit(<<Backslash, "!">>),
              [t |-> "seq", of |-> <<Chr(Backslash), [t |-> "end"]>>],
              Lit(<<Backslash, Backquote>>),
              Lit(<<Backslash, "&">>),
              [t |-> "star", of |-> Chr(Backslash)],
              [t |-> "alt", of |-> <<Lit(<<>>), Lit(<<>>)>>],
              Chr("+")>>]

UNIX_LIKE_LOCAL_LINK_REGEX ==
    [t |-> "seq",
     of |-> <<[t |-> "opt", of |-> pathPrefix],
              [t |-> "plus",
               of |-> [t |-> "seq",
                       of |-> <<pathSeparatorClause,
                                [t |-> "plus",
                                 of |-> [t |-> "alt",
                                         of |-> <<excludedPathCharactersClause,
                                                  escapedExcludedPathCharactersClause>>]]>>]]>>]

winPathPrefix ==
    [t |-> "alt", of |-> <<[t |-> "seq", of |-> <<[t |-> "set", in |-> Letters], Chr(":")>>],
                           [t |-> "seq", of |-> <<Chr("."), [t |-> "opt", of |-> Chr(".")]>>],
                           Chr("~")>>]
winPathSeparatorClause == [t |-> "alt", of |-> <<Chr(Backslash), Chr("/")>>]
winExcludedPathCharactersClause ==
    [t |-> "not", in |-> Whitespace \cup {"<", ">", "?", "|", "/", "!", "$", Backquote, "&", "*", "(",
                                          ")", "[", "]", "+", "'", "\"", ":", ";"}]

WINDOWS_LOCAL_LINK_REGEX ==
    [t |-> "seq",
     of |-> <<[t |-> "opt", of |-> winPathPrefix],
              [t |-> "plus",
               of |-> [t |-> "seq",
                       of |-> <<winPathSeparatorClause,
                                [t |-> "plus", of |-> winExcludedPathCharactersClause]>>]]>>]

\* _localLinkRegex
_localLinkRegex(platform) ==
    IF platform = "Windows" THEN WINDOWS_LOCAL_LINK_REGEX ELSE UNIX_LIKE_LOCAL_LINK_REGEX

\* RegExp matching by backtracking: the positions at which a match of `re`
\* that starts after the first i characters of `str` may end, in the order in
\* which the matcher tries them.  A repetition that has made its minimum
\* gives up an iteration that matches the empty string.
RECURSIVE ends(_, _, _), endsOfSeq(_, _, _, _), endsOfAlt(_, _, _, _),
          endsOfStar(_, _, _), thenStar(_, _, _, _, _)
ends(re, str, i) ==
    CASE re.t = "set" -> IF i < Len(str) /\ str[i + 1] \in re.in THEN <<i + 1>> ELSE <<>>
      [] re.t = "not" -> IF i < Len(str) /\ str[i + 1] \notin re.in THEN <<i + 1>> ELSE <<>>
      [] re.t = "end" -> IF i = Len(str) THEN <<i>> ELSE <<>>
      [] re.t = "seq" -> endsOfSeq(re.of, 1, str, <<i>>)
      [] re.t = "alt" -> endsOfAlt(re.of, 1, str, i)
      [] re.t = "opt" -> ends(re.of, str, i) \o <<i>>
      [] re.t = "star" -> endsOfStar(re.of, str, i)
      [] re.t = "plus" -> thenStar(re.of, str, ends(re.of, str, i), 1, Len(str) + 1)

\* the expressions of a sequence from the k-th on, after each of `starts`
endsOfSeq(of, k, str, starts) ==
    IF k > Len(of) THEN starts
    ELSE IF starts = <<>> THEN <<>>
    ELSE endsOfSeq(of, k + 1, str, ends(of[k], str, Head(starts)))
         \o endsOfSeq(of, k, str, Tail(starts))

\* the alternatives from the k-th on
endsOfAlt(of, k, str, i) ==
    IF k > Len(of) THEN <<>>
    ELSE ends(of[k], str, i) \o endsOfAlt(of, k + 1, str, i)

\* re*, which stops where it is after its iterations have been tried
endsOfStar(re, str, i) == thenStar(re, str, ends(re, str, i), 1, i) \o <<i>>

\* re* after each of the ends of an iteration from the n-th on, but for an
\* iteration that has ended at `empty` (past the end of `str`: nowhere)
thenStar(re, str, iteration, n, empty) ==
    IF n > Len(iteration) THEN <<>>
    ELSE (IF iteration[n] = empty THEN <<>> ELSE endsOfStar(re, str, iteration[n]))
         \o thenStar(re, str, iteration, n + 1, empty)

\* str.substring(from, to)
substring(str, from, to) == [i \in 1..(to - from) |-> str[from + i]]

\* str.match(regex)[1] of an expression that is one group: <<>> when nothing
\* matches, else <<the match that starts leftmost>>
RECURSIVE matchFrom(_, _, _)
matchFrom(str, regex, i) ==
    IF i > Len(str) THEN <<>>
    ELSE LET found == ends(regex, str, i)
         IN  IF found # <<>> THEN <<substring(str, i, Head(found))>>
             ELSE matchFrom(str, regex, i + 1)

match(str, regex) == matchFrom(str, regex, 0)

----------------------------------------------------------------------------
(* The local links of the lines of a terminal *)

MaxSegments == 2

Platforms == {"Windows", "Linux"}

\* the forms of a path: its prefix, then segments that follow a separator
PrefixesOf(platform) ==
    IF platform = "Windows" THEN {<<"c", ":">>, <<".">>, <<".", ".">>, <<"~">>}
    ELSE {<<>>, <<"~">>, <<".">>, <<".", ".">>}
SeparatorsOf(platform) == IF platform = "Windows" THEN {Backslash, "/"} ELSE {"/"}
Segments == {<<"f", "o", "o">>, <<"a">>}

RECURSIVE PathsOf(_, _)
PathsOf(platform, n) ==
    IF n = 0 THEN {<<>>}
    ELSE {<<separator>> \o segment \o path :
              separator \in SeparatorsOf(platform), segment \in Segments,
              path \in PathsOf(platform, n - 1)}

LinksOf(platform) ==
    {prefix \o path : prefix \in PrefixesOf(platform),
                      path \in UNION {PathsOf(platform, n) : n \in 1..MaxSegments}}

\* what a line has before and after a link
Delimiters == {<<" ", " ">>, <<":", ":">>, <<";", ";">>, <<"(", ")">>}

\* a handler of a platform, and a line that holds a link
InitLinks ==
    /\ registry = <<>>
    /\ userConfig = <<>>
    /\ cachedResolver = <<>>
    /\ currentChord = NoChord
    /\ statusService = FALSE
    /\ \E platform \in Platforms :
           \E link \in LinksOf(platform), delimiters \in Delimiters :
               out = [op |-> "line", platform |-> platform, link |-> link,
                      line |-> <<delimiters[1]>> \o link \o <<delimiters[2]>>]

\* the link matcher on the line: line.match(this._localLinkRegex)[1]
MatchLine ==
    /\ out.op = "line"
    /\ out' = [op |-> "match", platform |-> out.platform, link |-> out.link,
               line |-> out.line,
               result |-> match(out.line, _localLinkRegex(out.platform))]
    /\ UNCHANGED <<registry, userConfig, cachedResolver, currentChord, statusService>>

NextLinks == MatchLine

SpecLinks == InitLinks /\ [][NextLinks]_vars

----------------------------------------------------------------------------
(* KeybindingResolver.whenIsEntirelyIncluded on its own *)

Clauses == {"a", "b", "c"}

\* a condition: none, or a conjunction of clauses
Conditions == {<<>>} \cup {<<clauses>> : clauses \in (SUBSET Clauses) \ {{}}}

InitWhen ==
    /\ registry = <<>>
    /\ userConfig = <<>>
    /\ cachedResolver = <<>>
    /\ currentChord = NoChord
    /\ statusService = FALSE
    /\ \E inNormalizedForm \in BOOLEAN, a \in Conditions, b \in Conditions :
           out = [op |-> "conditions", inNormalizedForm |-> inNormalizedForm, a |-> a, b |-> b]

\* KeybindingResolver.whenIsEntirelyIncluded(inNormalizedForm, a, b)
WhenIsEntirelyIncludedCall ==
    /\ out.op = "conditions"
    /\ out' = [op |-> "whenIsEntirelyIncluded", inNormalizedForm |-> out.inNormalizedForm,
               a |-> out.a, b |-> out.b,
               result |-> whenIsEntirelyIncluded(out.inNormalizedForm, out.a, out.b)]
    /\ UNCHANGED <<registry, userConfig, cachedResolver, currentChord, statusService>>

NextWhen == WhenIsEntirelyIncludedCall

SpecWhen == InitWhen /\ [][NextWhen]_vars

----------------------------------------------------------------------------
(* KeybindingResolver.combine on its own *)

CombineRegistryItems ==
    [keybinding : {<<1>>, <<1, 2>>}, command : {<<"X">>, <<"Y">>},
     commandArgs : {NoArgs}, when : {NoWhen, <<{"a"}>>, <<{"b"}>>}]

CombineUserRecords ==
    [key : {<<>>, << <<"k1">> >>}, command : {<<"X">>, <<"-", "X">>},
     when : {<<>>, << <<"a">> >>}, args : {NoArgs}]

InitCombine ==
    /\ registry \in ListsUpTo(CombineRegistryItems, MaxDefaults)
    /\ userConfig \in ListsUpTo(CombineUserRecords, MaxOverrides)
    /\ cachedResolver = <<>>
    /\ currentChord = NoChord
    /\ statusService = TRUE
    /\ out = [op |-> "constructor"]

\* KeybindingResolver.combine(defaults, overrides) as the constructor calls it
CombineCall ==
    /\ out.op = "constructor"
    /\ LET defaults == mapFromKeybindingItem(registry, TRUE)
           rawOverrides == mapFromKeybindingItem(_getExtraKeybindings(userConfig), FALSE)
       IN  out' = [op |-> "combine", defaults |-> defaults, rawOverrides |-> rawOverrides,
                   result |-> combine(defaults, rawOverrides)]
    /\ UNCHANGED <<registry, userConfig, cachedResolver, currentChord, statusService>>

NextCombine == CombineCall

SpecCombine == InitCombine /\ [][NextCombine]_vars

----------------------------------------------------------------------------
(* Claims about KeybindingResolver.combine, under SpecCombine *)

isRemoval(override) == override.command # <<>> /\ Head(override.command) = MinusChar

\* C1: combine(R, []) is R: the same rules in the same order.
C1_CombineEmptyOverrides ==
    (out.op = "combine" /\ out.rawOverrides = <<>>) => out.result = out.defaults

C1_Witness ==
    /\ out.op = "combine" /\ out.rawOverrides = <<>>
    /\ Len(out.defaults) = 2 /\ out.defaults[1] # out.defaults[2]
    /\ out.result = out.defaults

\* C2: a removal directive -C with no keybinding and no condition leaves no
\* default rule whose command is C in the result of combine, and no rule whose
\* command is -C: the directive is not appended.
C2_RemovalDirective ==
    out.op = "combine" =>
        \A i \in 1..Len(out.rawOverrides) :
            LET directive == out.rawOverrides[i]
            IN  (isRemoval(directive) /\ directive.keybinding = <<>> /\ directive.when = <<>>)
                => \A j \in 1..Len(out.result) :
                       /\ ~(out.result[j].isDefault
                            /\ out.result[j].command = Tail(directive.command))
                       /\ out.result[j].command # directive.command

C2_Witness ==
    /\ out.op = "combine"
    /\ \E i \in 1..Len(out.rawOverrides) :
           /\ isRemoval(out.rawOverrides[i])
           /\ out.rawOverrides[i].keybinding = <<>> /\ out.rawOverrides[i].when = <<>>
           /\ Len(out.defaults) = 2
           /\ \A j \in 1..2 : out.defaults[j].command = Tail(out.rawOverrides[i].command)
    /\ out.defaults[1] # out.defaults[2]
    /\ out.result = <<>>

\* whether the removal directive is aimed at the default rule d, as C3 states it
aimedAt(directive, d) ==
    /\ d.command = Tail(directive.command)
    /\ (directive.keybinding = <<>> \/ directive.keybinding = d.keybinding)
    /\ (directive.when = <<>> \/ directive.when = d.when)

\* C3: combine(defaults, overrides) is the defaults at which no removal
\* directive of overrides is aimed, in their order, followed by the overrides
\* that are no removal directives, in their order.
C3_CombineResult ==
    out.op = "combine" =>
        LET survives(d) == \A i \in 1..Len(out.rawOverrides) :
                               isRemoval(out.rawOverrides[i]) => ~aimedAt(out.rawOverrides[i], d)
            added(o) == ~isRemoval(o)
        IN  out.result = SelectSeq(out.defaults, survives) \o SelectSeq(out.rawOverrides, added)

C3_Witness ==
    /\ out.op = "combine"
    /\ Len(out.defaults) = 2 /\ Len(out.rawOverrides) = 2
    /\ out.defaults[1].command = out.defaults[2].command
    /\ isRemoval(out.rawOverrides[1]) /\ ~isRemoval(out.rawOverrides[2])
    /\ out.rawOverrides[1].keybinding # <<>> /\ out.rawOverrides[1].when # <<>>
    /\ out.result = <<out.defaults[1], out.rawOverrides[2]>>

\* the list with its i-th element moved to the j-th place
moved(list, i, j) ==
    LET others == splice(list, i)
    IN  SubSeq(others, 1, j - 1) \o <<list[i]>> \o SubSeq(others, j, Len(others))

\* C31: removal directives act on the defaults only, wherever they stand:
\* the result of combine ends with every override that is no removal
\* directive, in their order, be it of the command, keybinding and condition
\* a directive before or after it is aimed at; and combine of the overrides
\* with a removal directive moved to any other place is the same result.
C31_DirectivesOnDefaultsOnly ==
    out.op = "combine" =>
        LET added == SelectSeq(out.rawOverrides, LAMBDA o : ~isRemoval(o))
        IN  /\ Len(out.result) >= Len(added)
            /\ SubSeq(out.result, Len(out.result) - Len(added) + 1, Len(out.result)) = added
            /\ \A n \in 1..(Len(out.result) - Len(added)) : out.result[n].isDefault
            /\ \A i \in 1..Len(out.rawOverrides), j \in 1..Len(out.rawOverrides) :
                   isRemoval(out.rawOverrides[i])
                   => combine(out.defaults, moved(out.rawOverrides, i, j)) = out.result

\* an override, then a removal directive aimed at a default and at what the
\* override is: the default is removed and the override kept
C31_Witness ==
    /\ out.op = "combine"
    /\ Len(out.defaults) = 1 /\ Len(out.rawOverrides) = 2
    /\ ~isRemoval(out.rawOverrides[1]) /\ isRemoval(out.rawOverrides[2])
    /\ out.rawOverrides[2].keybinding # <<>> /\ out.rawOverrides[2].when # <<>>
    /\ aimedAt(out.rawOverrides[2], out.defaults[1])
    /\ aimedAt(out.rawOverrides[2], out.rawOverrides[1])
    /\ out.result = <<out.rawOverrides[1]>>

\* a removal directive, then an override that is what the directive is aimed at
C31_WitnessAfter ==
    /\ out.op = "combine"
    /\ Len(out.defaults) = 1 /\ Len(out.rawOverrides) = 2
    /\ isRemoval(out.rawOverrides[1]) /\ ~isRemoval(out.rawOverrides[2])
    /\ aimedAt(out.rawOverrides[1], out.defaults[1])
    /\ aimedAt(out.rawOverrides[1], out.rawOverrides[2])
    /\ out.result = <<out.rawOverrides[2]>>

----------------------------------------------------------------------------
(* Claims about resolve and _dispatch, under Spec *)

\* the call `out` reports is a _dispatch (or a resolve) of a key that is no modifier key
dispatched == out.op = "dispatch" /\ ~isModifierKey(out.keybinding)
resolved == out.op \in {"dispatch", "resolve"} /\ ~isModifierKey(out.keybinding)

\* the resolver that answered the call `out` reports
answering == cachedResolver[1]

holdsIn(rule, context) == rule.when = <<>> \/ rule.when[1] \subseteq context

Last(S) == CHOOSE i \in S : \A j \in S : j <= i

\* what resolve returns for AwaitChord(keypress) and for Invoke of a rule
AwaitChord(keypress) ==
    <<[enterChord |-> keypress, commandId |-> <<>>, commandArgs |-> <<>>, bubble |-> FALSE]>>
Invoke(rule) ==
    <<[enterChord |-> NoChord, commandId |-> <<rule.command>>,
       commandArgs |-> rule.commandArgs, bubble |-> rule.bubble]>>

\* C4: resolve selects, from the chord bucket (pending, keypress) when a chord is
\* pending and from the flat bucket of keypress otherwise, the last-inserted
\* candidate whose condition is absent or true in the context; with no bucket
\* or no such candidate the result is NoMatch.
C4_ResolveSelectsLast ==
    resolved =>
        LET bucket == IF out.chordBefore # NoChord
                      THEN answering.chords[out.chordBefore][out.keybinding]
                      ELSE answering.map[out.keybinding]
            qualifying == {i \in 1..Len(bucket) :
                              holdsIn(answering.allKeybindings[bucket[i]], out.context)}
        IN  IF qualifying = {}
            THEN out.matched = 0 /\ out.resolveResult = <<>>
            ELSE out.matched = bucket[Last(qualifying)] /\ out.resolveResult # <<>>

C4_Witness ==
    /\ dispatched /\ out.chordBefore = NoChord
    /\ Len(answering.map[out.keybinding]) = 2
    /\ \A i \in 1..2 :
           holdsIn(answering.allKeybindings[answering.map[out.keybinding][i]], out.context)
    /\ out.matched = answering.map[out.keybinding][2]
    /\ out.matched # answering.map[out.keybinding][1]

\* the overrides the user's file gives, as _getResolver reads them
userOverrides == mapFromKeybindingItem(_getExtraKeybindings(userConfig), FALSE)

\* an override that is no removal directive is bound to the key-press, singly or
\* as the first key-press of a chord, and its condition is absent or true
overrideApplies(keypress, context) ==
    \E i \in 1..Len(userOverrides) :
        /\ ~isRemoval(userOverrides[i])
        /\ userOverrides[i].keybinding # <<>>
        /\ userOverrides[i].keybinding[1] = keypress
        /\ holdsIn(userOverrides[i], context)

\* C5: with no chord pending, when an override that is no removal directive is
\* bound to the key-press dispatched and its condition is absent or true, an
\* override decides the dispatch: no default rule is matched, so the command
\* of a default rule is not invoked.
C5_OverrideDecides ==
    (out.op = "dispatch" /\ out.chordBefore = NoChord
        /\ overrideApplies(out.keybinding, out.context))
    => /\ out.matched # 0 => ~answering.allKeybindings[out.matched].isDefault
       /\ ~isModifierKey(out.keybinding) => out.matched # 0
       /\ out.matched = 0 => out.executed = <<>>

C5_Witness ==
    /\ dispatched /\ out.chordBefore = NoChord
    /\ overrideApplies(out.keybinding, out.context)
    /\ \E i \in 1..Len(answering.defaultKeybindings) :
           /\ answering.defaultKeybindings[i].keybinding = <<out.keybinding>>
           /\ answering.defaultKeybindings[i].when = <<>>
           /\ answering.allKeybindings[i] = answering.defaultKeybindings[i]
    /\ out.executed = << <<<<"Z">>, EmptyObject>> >>

\* the rules of the combined list bound to keypress, singly or as the first
\* key-press of a chord, and those bound to the chord (first, second)
boundTo(r, keypress) ==
    {i \in 1..Len(r.allKeybindings) :
        /\ r.allKeybindings[i].keybinding # <<>>
        /\ r.allKeybindings[i].keybinding[1] = keypress}
boundToChord(r, first, second) ==
    {i \in 1..Len(r.allKeybindings) : r.allKeybindings[i].keybinding = <<first, second>>}

\* the last rule of S whose condition is absent or true in the context, 0 for none
lastHolding(r, S, context) ==
    LET holding == {i \in S : holdsIn(r.allKeybindings[i], context)}
    IN  IF holding = {} THEN 0 ELSE Last(holding)

C6_First ==
    (dispatched /\ out.chordBefore = NoChord)
    => LET rule == lastHolding(answering, boundTo(answering, out.keybinding), out.context)
       IN  (rule # 0 /\ isChord(answering.allKeybindings[rule].keybinding))
           => /\ out.resolveResult = AwaitChord(out.keybinding)
              /\ currentChord = out.keybinding
              /\ out.shouldPreventDefault
              /\ out.executed = <<>>

C6_Second ==
    (dispatched /\ out.chordBefore # NoChord)
    => LET rule == lastHolding(answering,
                               boundToChord(answering, out.chordBefore, out.keybinding),
                               out.context)
       IN  rule # 0
           => /\ out.resolveResult = Invoke(answering.allKeybindings[rule])
              /\ currentChord = NoChord
              /\ answering.allKeybindings[rule].command # <<>>
                 => /\ Len(out.executed) = 1
                    /\ out.executed[1][1] = answering.allKeybindings[rule].command

C6_Immediately ==
    (/\ out.op = "dispatch" /\ out.resolveResult # <<>>
     /\ out.resolveResult[1].enterChord # NoChord
     /\ out'.op = "dispatch")
    => out'.chordBefore = out.resolveResult[1].enterChord

\* C6: with no chord pending, a dispatch of k1 whose selected rule is a chord
\* rule (k1, k2) yields AwaitChord(k1): the pending chord becomes k1, default
\* handling is suppressed and no command is executed; the dispatch that
\* follows it immediately runs with k1 pending, and a dispatch of k2 with k1
\* pending whose selected rule is the chord rule for Z yields Invoke(Z, ...),
\* executes Z and leaves no chord pending.
C6_ChordRoundTrip == [](C6_First /\ C6_Second) /\ [][C6_Immediately]_vars

C6_Witness ==
    /\ dispatched /\ out.chordBefore = 1 /\ out.keybinding = 2
    /\ out.matched # 0
    /\ answering.allKeybindings[out.matched].keybinding = <<1, 2>>
    /\ out.resolveResult = Invoke(answering.allKeybindings[out.matched])
    /\ out.executed = << <<<<"Z">>, EmptyObject>> >>
    /\ currentChord = NoChord

\* a dispatch, with a chord pending, of a key that is no modifier key and has
\* no bucket under the pending chord
abandoned ==
    /\ dispatched /\ out.chordBefore # NoChord
    /\ answering.chords[out.chordBefore][out.keybinding] = <<>>

C7_Abandon ==
    abandoned => /\ out.resolveResult = <<>> /\ out.matched = 0
                 /\ out.executed = <<>>
                 /\ currentChord = NoChord

C7_Fresh ==
    (abandoned /\ out'.op \in {"dispatch", "resolve"} /\ ~isModifierKey(out'.keybinding))
    => /\ out'.chordBefore = NoChord
       /\ out'.matched = lastHolding(cachedResolver'[1],
                                     boundTo(cachedResolver'[1], out'.keybinding),
                                     out'.context)

\* C7: with a chord k1 pending, a dispatch of a key k3 that is no modifier key
\* and has no chord bucket (k1, k3) gives NoMatch, executes no command and
\* clears the pending chord; the key-press that follows is resolved with no
\* chord pending, against the rules bound to it in the flat index.
C7_AbandonedChord == []C7_Abandon /\ [][C7_Fresh]_vars

C7_Witness ==
    /\ abandoned /\ currentChord = NoChord
    /\ answering.map[out.keybinding] # <<>>
    /\ \E k \in KeyPresses : answering.chords[out.chordBefore][k] # <<>>

C8_Result ==
    (out.op \in {"dispatch", "resolve"} /\ isModifierKey(out.keybinding))
    => /\ out.resolveResult = <<>>
       /\ currentChord = out.chordBefore
       /\ out.op = "dispatch" => (out.executed = <<>> /\ ~out.shouldPreventDefault)

C8_Frame ==
    (out'.op \in {"dispatch", "resolve"} /\ isModifierKey(out'.keybinding))
    => currentChord' = currentChord

\* C8: a dispatch or a resolve of a modifier-only key-press, in any dispatcher
\* state and with any rules, leaves the pending chord as it was, gives neither
\* Invoke nor AwaitChord, executes no command and does not suppress default
\* handling.
C8_ModifierKey == []C8_Result /\ [][C8_Frame]_vars

C8_Witness ==
    /\ out.op = "dispatch" /\ isModifierKey(out.keybinding)
    /\ out.chordBefore # NoChord /\ currentChord = out.chordBefore
    /\ \E i \in 1..Len(registry) : registry[i].keybinding = <<out.keybinding>>

\* the rule made of a raw command id: the marker stripped and bubble set when
\* the raw id starts with the marker, the raw id and no bubble otherwise
madeOf(rule, rawCommand) ==
    IF rawCommand # <<>> /\ Head(rawCommand) = CaretChar
    THEN rule.command = Tail(rawCommand) /\ rule.bubble
    ELSE rule.command = rawCommand /\ ~rule.bubble

C9_Rules ==
    cachedResolver # <<>> /\ out.op \in {"dispatch", "resolve"}
    => /\ Len(answering.defaultKeybindings) = Len(registry)
       /\ \A i \in 1..Len(registry) :
              madeOf(answering.defaultKeybindings[i], registry[i].command)
       /\ Len(userOverrides) = Len(_getExtraKeybindings(userConfig))
       /\ \A i \in 1..Len(userOverrides) :
              madeOf(userOverrides[i], _getExtraKeybindings(userConfig)[i].command)

C9_Dispatch ==
    (dispatched /\ out.matched # 0 /\ answering.allKeybindings[out.matched].bubble
        /\ (out.resolveResult = <<>> \/ out.resolveResult[1].enterChord = NoChord))
    => /\ out.resolveResult = Invoke(answering.allKeybindings[out.matched])
       /\ out.resolveResult[1].bubble
       /\ ~out.shouldPreventDefault

C11_AbandonSuppresses ==
    (dispatched /\ out.chordBefore # NoChord /\ out.resolveResult = <<>>)
    => out.shouldPreventDefault

----------------------------------------------------------------------------
(* Claims about the index and the lookups, under SpecIndex *)

\* rule j is inserted after rule i into the flat bucket that holds i, with
\* another command, the two not being chords of different full sequences
conflictsWith(r, i, j) ==
    LET c == r.allKeybindings[i]
        it == r.allKeybindings[j]
    IN  /\ i < j
        /\ c.keybinding # <<>> /\ it.keybinding # <<>>
        /\ c.keybinding[1] = it.keybinding[1]
        /\ c.command # it.command
        /\ ~(isChord(c.keybinding) /\ isChord(it.keybinding) /\ c.keybinding # it.keybinding)

\* rule i is among the rules lookupKeybindings gives for its command
inLookup(r, i) ==
    LET items == lookupKeybindings(r, r.allKeybindings[i].command)
    IN  \E n \in 1..Len(items) : items[n] = i

\* the rules that the by-command lookup may hold: bound, with a command
lookedUp(r) ==
    {i \in 1..Len(r.allKeybindings) :
        r.allKeybindings[i].keybinding # <<>> /\ r.allKeybindings[i].command # <<>>}

\* cWhen is absent, or each of its clauses is a clause of rWhen
clausesWithin(cWhen, rWhen) ==
    cWhen = <<>> \/ (rWhen # <<>> /\ cWhen[1] \subseteq rWhen[1])

\* C12 as stated: a candidate c is removed from the by-command lookup exactly
\* when a rule r inserted after it into its flat bucket, with another command
\* and not a chord of another sequence, has c.when entirely included in
\* r.when: c.when absent, or every clause of c.when a clause of r.when.
C12_ShadowCriterionAsStated ==
    cachedResolver # <<>>
    => \A i \in lookedUp(answering) :
           ~inLookup(answering, i)
           <=> \E j \in 1..Len(answering.allKeybindings) :
                   /\ conflictsWith(answering, i, j)
                   /\ clausesWithin(answering.allKeybindings[i].when,
                                    answering.allKeybindings[j].when)

\* C12, amended: a candidate c is removed from the by-command lookup exactly
\* when a rule r inserted after it into its flat bucket, with another command
\* and not a chord of another sequence, has r.when absent or every clause of
\* r.when a clause of c.when (an absent c.when is covered by an absent r.when
\* only); so when A (X, c1) is followed by B (Y, c2) on the same key-press
\* and c2's clauses are a subset of c1's, lookupKeybindings(X) does not give A.
C12_ShadowCriterion ==
    cachedResolver # <<>>
    => \A i \in lookedUp(answering) :
           ~inLookup(answering, i)
           <=> \E j \in 1..Len(answering.allKeybindings) :
                   /\ conflictsWith(answering, i, j)
                   /\ clausesWithin(answering.allKeybindings[j].when,
                                    answering.allKeybindings[i].when)

C12_Witness ==
    /\ out.op = "lookupKeybindings" /\ out.commandId = <<"Y">> /\ out.items = <<>>
    /\ Len(answering.allKeybindings) = 2
    /\ answering.allKeybindings[1].keybinding = <<1>>
    /\ answering.allKeybindings[1].command = <<"Y">>
    /\ answering.allKeybindings[1].when = <<{"a", "b"}>>
    /\ answering.allKeybindings[2].keybinding = <<1>>
    /\ answering.allKeybindings[2].command = <<"X">>
    /\ answering.allKeybindings[2].when = <<{"a"}>>

\* the clauses of a condition, none for an absent one
clausesOf(when) == IF when = <<>> THEN {} ELSE when[1]

\* a dispatch, with no chord pending, of a key-press whose flat bucket holds
\* two rules, A and then B, both on that single key-press and of two commands
twoOnOneKey ==
    /\ dispatched /\ out.chordBefore = NoChord
    /\ Len(answering.map[out.keybinding]) = 2
    /\ \A n \in 1..2 :
           ~isChord(answering.allKeybindings[answering.map[out.keybinding][n]].keybinding)
    /\ answering.allKeybindings[answering.map[out.keybinding][1]].command
           # answering.allKeybindings[answering.map[out.keybinding][2]].command

ruleA == answering.allKeybindings[answering.map[out.keybinding][1]]
ruleB == answering.allKeybindings[answering.map[out.keybinding][2]]

\* C13 as stated: with A (X, c1) inserted before B (Y, c2) on one single
\* key-press and c1's clauses a subset of c2's, a dispatch in a context that
\* satisfies c2 gives Invoke(Y, ...) and one in a context that satisfies c1
\* but not c2 gives NoMatch.
C13_TotalShadowAsStated ==
    (twoOnOneKey /\ clausesOf(ruleA.when) \subseteq clausesOf(ruleB.when))
    => /\ holdsIn(ruleB, out.context) => out.resolveResult = Invoke(ruleB)
       /\ (holdsIn(ruleA, out.context) /\ ~holdsIn(ruleB, out.context))
          => out.resolveResult = <<>>

\* C13, amended: with A (X, c1) inserted before B (Y, c2) on one single
\* key-press and c2's clauses a subset of c1's, a dispatch in a context that
\* satisfies c2 gives Invoke(Y, ...) and one in any other context gives
\* NoMatch, so A is never invoked; with c1's clauses a subset of c2's, a
\* context that satisfies c1 but not c2 gives Invoke(X, ...).
C13_TotalShadow ==
    twoOnOneKey
    => /\ clausesOf(ruleB.when) \subseteq clausesOf(ruleA.when)
          => IF holdsIn(ruleB, out.context)
             THEN /\ out.resolveResult = Invoke(ruleB)
                  /\ \A n \in 1..Len(out.executed) : out.executed[n][1] # ruleA.command
             ELSE out.resolveResult = <<>> /\ out.executed = <<>>
       /\ (/\ clausesOf(ruleA.when) \subseteq clausesOf(ruleB.when)
           /\ holdsIn(ruleA, out.context) /\ ~holdsIn(ruleB, out.context))
          => out.resolveResult = Invoke(ruleA)

C13_Witness ==
    /\ twoOnOneKey
    /\ clausesOf(ruleB.when) \subseteq clausesOf(ruleA.when)
    /\ clausesOf(ruleB.when) # clausesOf(ruleA.when)
    /\ holdsIn(ruleA, out.context)
    /\ out.resolveResult = Invoke(ruleB)
    /\ ~inLookup(answering, answering.map[out.keybinding][1])

\* rule i has been removed from the by-command lookup
shadowed(r, i) == i \in lookedUp(r) /\ ~inLookup(r, i)

\* C14: no resolve, with or without a chord pending, settles on a rule that
\* shadow detection has removed from the by-command lookup: neither Invoke
\* nor AwaitChord comes of a shadowed rule.
C14_ShadowedNeverWins ==
    (resolved /\ out.matched # 0) => ~shadowed(answering, out.matched)

\* the members of a set of rules, the last inserted first
RECURSIVE lastFirst(_)
lastFirst(S) == IF S = {} THEN <<>> ELSE <<Last(S)>> \o lastFirst(S \ {Last(S)})

\* the indexed rules of a command that no rule inserted after them shadows
nonShadowed(r, commandId) ==
    {i \in 1..Len(r.allKeybindings) :
        /\ r.allKeybindings[i].keybinding # <<>>
        /\ r.allKeybindings[i].command = commandId
        /\ ~\E j \in 1..Len(r.allKeybindings) :
               /\ conflictsWith(r, i, j)
               /\ clausesWithin(r.allKeybindings[j].when, r.allKeybindings[i].when)}

lookupsAgree(commandId) ==
    /\ out.op = "lookupKeybindings"
       => /\ out.items = lastFirst(nonShadowed(answering, commandId))
          /\ out.result = [n \in 1..Len(out.items) |->
                              answering.allKeybindings[out.items[n]].keybinding]
    /\ out.op = "lookupKeybinding"
       => IF nonShadowed(answering, commandId) = {}
          THEN out.item = 0 /\ out.result = <<>>
          ELSE /\ out.item = lastFirst(nonShadowed(answering, commandId))[1]
               /\ out.result = answering.allKeybindings[out.item].keybinding

\* C15 as stated: for every command id, lookupKeybindings gives exactly the
\* indexed rules of that command that are not shadowed, each once, the last
\* inserted first; lookupPrimaryKeybinding gives the first of them, and
\* nothing exactly when there is none.
C15_LookupsAsStated ==
    out.op \in {"lookupKeybindings", "lookupKeybinding"} => lookupsAgree(out.commandId)

\* C15, amended: the same for every command id that is not empty; for the
\* empty command id both give nothing, whatever rules carry it.
C15_Lookups ==
    out.op \in {"lookupKeybindings", "lookupKeybinding"}
    => IF out.commandId # <<>>
       THEN lookupsAgree(out.commandId)
       ELSE IF out.op = "lookupKeybindings" THEN out.items = <<>> ELSE out.item = 0

C15_Witness ==
    /\ out.op = "lookupKeybindings"
    /\ out.commandId # <<>>
    /\ Len(out.items) = 2 /\ out.items[1] > out.items[2]

\* how many times a bucket holds rule i
timesIn(bucket, i) == Cardinality({n \in 1..Len(bucket) : bucket[n] = i})

\* rule i is once in the bucket `home` of `buckets` and in no other of them;
\* with no home it is in none
onlyIn(buckets, home, i) ==
    \A b \in DOMAIN buckets : timesIn(buckets[b], i) = IF b \in home THEN 1 ELSE 0

\* the flat buckets by key-press and the chord buckets by <<first, second>>
flatBuckets(r) == [k \in KeyPresses |-> r.map[k]]
chordBuckets(r) == [c \in KeyPresses \X KeyPresses |-> r.chords[c[1]][c[2]]]

inOrder(bucket) == \A m, n \in 1..Len(bucket) : m < n => bucket[m] < bucket[n]

\* C17: in a constructed index a rule with no keybinding is in no bucket and
\* in no lookup result; a rule on a single key-press is in the flat bucket of
\* that key-press, once, and in no other bucket; a chord rule (first, second)
\* is once in the chord bucket (first, second) and once in the flat bucket of
\* first, and in no other bucket; every bucket is in the order of the
\* combined list; a shadowed rule is still in its buckets.
C17_IndexStructure ==
    cachedResolver # <<>>
    => /\ \A i \in 1..Len(answering.allKeybindings) :
              LET keybinding == answering.allKeybindings[i].keybinding
              IN  IF keybinding = <<>>
                  THEN /\ onlyIn(flatBuckets(answering), {}, i)
                       /\ onlyIn(chordBuckets(answering), {}, i)
                       /\ \A c \in IndexCommands :
                              \A n \in 1..Len(lookupKeybindings(answering, c)) :
                                  lookupKeybindings(answering, c)[n] # i
                  ELSE IF Len(keybinding) = 1
                  THEN /\ onlyIn(flatBuckets(answering), {keybinding[1]}, i)
                       /\ onlyIn(chordBuckets(answering), {}, i)
                  ELSE /\ onlyIn(flatBuckets(answering), {keybinding[1]}, i)
                       /\ onlyIn(chordBuckets(answering), {<<keybinding[1], keybinding[2]>>}, i)
       /\ \A k \in DOMAIN flatBuckets(answering) : inOrder(flatBuckets(answering)[k])
       /\ \A c \in DOMAIN chordBuckets(answering) : inOrder(chordBuckets(answering)[c])

C17_Witness ==
    /\ cachedResolver # <<>>
    /\ Len(answering.allKeybindings) = 2
    /\ answering.map[1] = <<1, 2>>
    /\ isChord(answering.allKeybindings[2].keybinding)
    /\ shadowed(answering, 1)

\* as C17_Witness, for a rule with no keybinding
C17_WitnessUnbound ==
    /\ cachedResolver # <<>>
    /\ \E i \in 1..Len(answering.allKeybindings) :
           answering.allKeybindings[i].keybinding = <<>>

\* the shadowing events of a construction: <<c, r>> when r, inserted into the
\* flat bucket that holds c, removes c from the by-command lookup
shadowings(r) ==
    {e \in (1..Len(r.allKeybindings)) \X (1..Len(r.allKeybindings)) :
        /\ conflictsWith(r, e[1], e[2])
        /\ clausesWithin(r.allKeybindings[e[2]].when, r.allKeybindings[e[1]].when)}

\* the diagnostics recorded are those of the events in `events`, one for each
diagnosed(r, events) ==
    /\ {r.warnings[n] : n \in 1..Len(r.warnings)} = events
    /\ Len(r.warnings) = Cardinality(events)

\* C19 as stated: the construction of the index records a conflict diagnostic
\* for a shadowing event exactly when the shadowed candidate is a default
\* and the shadowing rule an override; none when the shadowing rule is a
\* default.
C19_DiagnosticsAsStated ==
    cachedResolver # <<>>
    => diagnosed(answering,
                 {e \in shadowings(answering) :
                     /\ answering.allKeybindings[e[1]].isDefault
                     /\ ~answering.allKeybindings[e[2]].isDefault})

\* C19, amended: the construction of the index, with warnings on conflict as
\* the service builds it, records a conflict diagnostic for a shadowing
\* event exactly when the shadowing rule is a default (the shadowed
\* candidate is then a default too); none when the shadowing rule is an
\* override.
C19_Diagnostics ==
    cachedResolver # <<>>
    => /\ diagnosed(answering,
                    {e \in shadowings(answering) : answering.allKeybindings[e[2]].isDefault})
       /\ \A n \in 1..Len(answering.warnings) :
              answering.allKeybindings[answering.warnings[n][1]].isDefault

C19_Witness ==
    /\ cachedResolver # <<>>
    /\ answering.warnings = << <<1, 2>> >>
    /\ shadowed(answering, 1)

\* a record whose key is a string that names no keybinding
keyIsInvalid(record) == record.key # <<>> /\ readKeybinding(record.key[1]) = <<>>

\* the resolver built from the same defaults and the override file with the
\* records of invalid key left out
withoutInvalidKeys ==
    KeybindingResolver(mapFromKeybindingItem(registry, TRUE),
                       mapFromKeybindingItem(
                           _getExtraKeybindings(SelectSeq(userConfig,
                                                          LAMBDA u : ~keyIsInvalid(u))),
                           FALSE),
                       TRUE)

\* C20: an override record whose key is invalid is a disabled rule: with it
\* in the override file, whatever its command id, every dispatch and every
\* lookupKeybindings gives what the resolver built without it gives.
C20_InvalidKeyDisabled ==
    /\ dispatched
       => out.resolveResult
              = resolve(withoutInvalidKeys, out.context, out.chordBefore, out.keybinding)
    /\ out.op = "lookupKeybindings"
       => out.result
              = [n \in 1..Len(lookupKeybindings(withoutInvalidKeys, out.commandId)) |->
                    withoutInvalidKeys.allKeybindings[
                        lookupKeybindings(withoutInvalidKeys, out.commandId)[n]].keybinding]

\* C18: every dispatch and every lookup is answered by an index built from
\* the default rules and the override records as they are after the most
\* recent change of either (a contribution that registers a rule, a reload
\* of the override file); an index built before that change answers none.
C18_CacheFreshness ==
    /\ cachedResolver # <<>> => answering = newResolver
    /\ dispatched
       => out.resolveResult = resolve(newResolver, out.context, out.chordBefore, out.keybinding)
    /\ out.op = "lookupKeybindings"
       => out.items = lookupKeybindings(newResolver, out.commandId)
    /\ out.op = "lookupKeybinding"
       => out.item = lookupPrimaryKeybinding(newResolver, out.commandId)

\* a lookup answered after a chord was entered on a rule that a reload has
\* since taken away
C18_Witness ==
    /\ out.op = "lookupKeybindings" /\ out.items # <<>>
    /\ currentChord # NoChord
    /\ \A i \in 1..Len(answering.allKeybindings) :
           ~isChord(answering.allKeybindings[i].keybinding)

C27_Same ==
    /\ dispatched
       => /\ out.matched = resolveMatch(answering, out.context, out.chordBefore, out.keybinding)
          /\ out.resolveResult = resolve(answering, out.context, out.chordBefore, out.keybinding)
    /\ out.op = "lookupKeybindings"
       => out.items = lookupKeybindings(answering, out.commandId)
    /\ out.op = "lookupKeybinding"
       => out.item = lookupPrimaryKeybinding(answering, out.commandId)

C27_Frame ==
    (cachedResolver # <<>> /\ out'.op \in {"dispatch", "lookupKeybindings", "lookupKeybinding"})
    => /\ cachedResolver' # <<>>
       /\ cachedResolver'[1].map = answering.map
       /\ cachedResolver'[1].chords = answering.chords
       /\ cachedResolver'[1].lookupMap = answering.lookupMap

\* C27: the index, once constructed, is read-only for its readers: a dispatch
\* (its resolve), a lookupKeybindings or a lookupPrimaryKeybinding leaves the
\* flat buckets, the chord buckets and the by-command lookup as they were, so
\* the query just answered, made again on the index with the same context
\* and pending chord, has the same answer.
C27_ReadOnly == []C27_Same /\ [][C27_Frame]_vars

\* a lookup, with a chord pending that a dispatch on this index has entered,
\* of a command that two rules of the index bind
C27_Witness ==
    /\ out.op = "lookupKeybinding" /\ out.item # 0
    /\ Len(lookupKeybindings(answering, out.commandId)) = 2
    /\ currentChord # NoChord
    /\ \E k \in KeyPresses : answering.chords[currentChord][k] # <<>>

\* the call `out` reports has asked _getResolver for the resolver
reading(call) ==
    \/ call.op \in {"lookupKeybindings", "lookupKeybinding"}
    \/ call.op = "dispatch" /\ ~isModifierKey(call.keybinding)

C28_Step ==
    /\ out'.op = "updateResolver" => cachedResolver' = <<>>
    /\ (out'.op = "dispatch" /\ isModifierKey(out'.keybinding))
       => out'.built = 0 /\ cachedResolver' = cachedResolver
    /\ reading(out')
       => IF cachedResolver = <<>>
          THEN out'.built = 1 /\ cachedResolver' = <<newResolver>>
          ELSE out'.built = 0 /\ cachedResolver' = cachedResolver

\* C28: the index is built only after an invalidation: updateResolver drops
\* the index and builds none; a dispatch or a lookup that finds no index
\* (after start-up, after an invalidation) builds one, once, from the rules
\* as they are; a dispatch or a lookup that finds an index builds none and
\* leaves that index in place.
C28_BuiltOnDemand == [][C28_Step]_vars

\* a lookup answered by an index that an earlier call has built
C28_Witness ==
    /\ out.op = "lookupKeybindings" /\ out.items # <<>>
    /\ out.built = 0

\* a lookup that has built the index anew, a dispatch on an earlier index
\* having entered the chord that is pending
C28_WitnessRebuilt ==
    /\ out.op = "lookupKeybindings" /\ out.items # <<>>
    /\ out.built = 1
    /\ currentChord # NoChord

C30_Step == out'.op = "updateResolver" => currentChord' = currentChord

C30_Continuation ==
    (dispatched /\ out.built = 1 /\ out.chordBefore # NoChord)
    => /\ out.matched = lastHolding(newResolver,
                                    boundToChord(newResolver, out.chordBefore, out.keybinding),
                                    out.context)
       /\ out.resolveResult = IF out.matched = 0 THEN <<>>
                              ELSE Invoke(newResolver.allKeybindings[out.matched])
       /\ currentChord = NoChord

\* C30: an invalidation of the index, by a reload of the override file or by
\* a contribution, leaves the pending chord as it is; the key-press that
\* follows, the first to build the index anew, is resolved as the second of
\* the chord, against the chord buckets of the index built from the rules as
\* they now are.
C30_ChordAcrossInvalidation == []C30_Continuation /\ [][C30_Step]_vars

\* a second key-press, the first to be answered by the index built after an
\* invalidation, that invokes the command of an override on the chord
C30_Witness ==
    /\ dispatched /\ out.built = 1 /\ out.chordBefore # NoChord
    /\ out.matched # 0
    /\ ~answering.allKeybindings[out.matched].isDefault
    /\ out.executed = << <<<<"Z">>, EmptyObject>> >>

\* C22: a candidate of a flat bucket is shadowed neither by a rule of its own
\* command, nor, being a chord, by a chord of another full sequence,
\* whatever the two conditions: a rule that is out of the by-command lookup
\* has after it, in its flat bucket, a rule of another command that is not
\* a chord of another sequence, and every diagnostic is about such a pair.
C22_NeverShadowedBy ==
    cachedResolver # <<>>
    => /\ \A i \in lookedUp(answering) :
              ~inLookup(answering, i)
              => \E j \in 1..Len(answering.allKeybindings) : conflictsWith(answering, i, j)
       /\ \A n \in 1..Len(answering.warnings) :
              conflictsWith(answering, answering.warnings[n][1], answering.warnings[n][2])

\* two rules on one key-press, the second of a condition that covers the
\* first's, which are of one command or chords of two sequences
C22_Witness ==
    /\ cachedResolver # <<>>
    /\ Len(answering.allKeybindings) = 2
    /\ answering.map[1] = <<1, 2>>
    /\ clausesWithin(answering.allKeybindings[2].when, answering.allKeybindings[1].when)
    /\ \/ answering.allKeybindings[1].command = answering.allKeybindings[2].command
       \/ /\ isChord(answering.allKeybindings[1].keybinding)
          /\ isChord(answering.allKeybindings[2].keybinding)
          /\ answering.allKeybindings[1].keybinding # answering.allKeybindings[2].keybinding
    /\ inLookup(answering, 1)
    /\ answering.warnings = <<>>

----------------------------------------------------------------------------
(* Claims about the resolver the service holds, under Spec *)

\* the command id a rule made of a raw command id carries
carried(rawCommand) ==
    IF rawCommand # <<>> /\ Head(rawCommand) = CaretChar THEN Tail(rawCommand) ELSE rawCommand

\* C16: getDefaultBoundCommands gives exactly the command ids that the rules
\* of the default list passed to the constructor carry, whatever the
\* overrides are, whether or not removal directives delete those defaults
\* and whether or not they are shadowed.
C16_DefaultBoundCommands ==
    cachedResolver # <<>>
    => getDefaultBoundCommands(answering)
           = {carried(registry[i].command) : i \in 1..Len(registry)}

C16_Witness ==
    /\ out.op = "dispatch" /\ cachedResolver # <<>>
    /\ <<"X">> \in getDefaultBoundCommands(answering)
    /\ \A i \in 1..Len(answering.allKeybindings) :
           answering.allKeybindings[i].command \notin {<<"X">>, <<"-", "X">>}
    /\ userConfig # <<>>

----------------------------------------------------------------------------
(* Claims about the length of chords, under Spec *)

C26_NoThird ==
    (resolved /\ out.chordBefore # NoChord)
    => /\ out.resolveResult = <<>> \/ out.resolveResult[1].enterChord = NoChord
       /\ dispatched => currentChord = NoChord

C26_Pending ==
    currentChord' # NoChord
    => IF out'.op = "dispatch" /\ ~isModifierKey(out'.keybinding)
       THEN out'.chordBefore = NoChord /\ out'.resolveResult = AwaitChord(currentChord')
       ELSE currentChord' = currentChord

\* C26: a chord is of two key-presses at most: resolve never gives AwaitChord
\* while a chord is pending, no chord is pending after a dispatch, with a chord
\* pending, of a key that is no modifier key, and a chord is pending only as
\* the AwaitChord dispatch of its key-press left it, through the presses of
\* modifier keys and the calls that are no dispatch.
C26_TwoKeyPresses == []C26_NoThird /\ [][C26_Pending]_vars

\* with a chord pending, a dispatch of a key-press that would begin a chord
\* were none pending
C26_Witness ==
    /\ dispatched /\ out.chordBefore # NoChord
    /\ resolve(answering, out.context, NoChord, out.keybinding) = AwaitChord(out.keybinding)
    /\ currentChord = NoChord

----------------------------------------------------------------------------
(* Claims about the command executor, under SpecArgs *)

\* the outcome of the dispatch `out` reports is Invoke
invoked == dispatched /\ out.resolveResult # <<>> /\ out.resolveResult[1].enterChord = NoChord

\* a rule's commandArgs as a value handed on unchanged, null when it has none
handedOn(commandArgs) == IF commandArgs = <<>> THEN "null" ELSE commandArgs[1]

\* C21 as stated: a dispatch whose outcome is Invoke calls the command
\* executor once, with the command id and the commandArgs of the matched
\* rule; one whose outcome is NoMatch or AwaitChord does not call it.
C21_ExecutorAsStated ==
    dispatched
    => IF invoked
       THEN out.executed = << <<answering.allKeybindings[out.matched].command,
                                handedOn(answering.allKeybindings[out.matched].commandArgs)>> >>
       ELSE out.executed = <<>>

\* C21, amended: a dispatch whose outcome is Invoke of a command id that is
\* not empty calls the command executor once, with the command id of the
\* matched rule and its commandArgs, or an empty object when the rule has no
\* commandArgs or falsy ones; one whose outcome is NoMatch, AwaitChord or
\* Invoke of the empty command id does not call it.
C21_Executor ==
    dispatched
    => IF invoked /\ answering.allKeybindings[out.matched].command # <<>>
       THEN out.executed =
                << <<answering.allKeybindings[out.matched].command,
                     IF handedOn(answering.allKeybindings[out.matched].commandArgs)
                            \in {"null"} \cup FalsyValues
                     THEN EmptyObject
                     ELSE handedOn(answering.allKeybindings[out.matched].commandArgs)>> >>
       ELSE out.executed = <<>>

C21_Witness ==
    /\ invoked
    /\ answering.allKeybindings[out.matched].commandArgs = <<"[1]">>
    /\ out.executed = << <<<<"Z">>, "[1]">> >>

\* the last-inserted candidate of the bucket of the key-press `out` reports
\* whose condition holds, 0 for none
candidate ==
    lastHolding(answering,
                IF out.chordBefore # NoChord
                THEN boundToChord(answering, out.chordBefore, out.keybinding)
                ELSE boundTo(answering, out.keybinding),
                out.context)

\* what a disabling entry does to the key-press
disabled ==
    /\ out.matched = candidate
    /\ out.executed = <<>>
    /\ currentChord = NoChord
    /\ out.chordBefore = NoChord => ~out.shouldPreventDefault

\* C29 as stated: when the last-inserted candidate whose condition holds has
\* an empty command id, no command is executed, no earlier candidate is
\* considered, no chord is pending afterwards and, no chord having been
\* pending, default handling is not suppressed.
C29_DisablingAsStated ==
    (dispatched /\ candidate # 0 /\ answering.allKeybindings[candidate].command = <<>>)
    => disabled

\* C29, amended: the same, of a candidate that is not a chord rule met on its
\* first key-press (which, whatever its command id, makes its chord pending
\* and suppresses default handling).
C29_Disabling ==
    (/\ dispatched /\ candidate # 0 /\ answering.allKeybindings[candidate].command = <<>>
     /\ ~(out.chordBefore = NoChord /\ isChord(answering.allKeybindings[candidate].keybinding)))
    => disabled

\* a key-press that a rule with an empty command id disables, a rule of a
\* command being before it in the bucket
C29_Witness ==
    /\ dispatched /\ out.chordBefore = NoChord
    /\ out.matched = 2 /\ answering.map[out.keybinding] = <<1, 2>>
    /\ answering.allKeybindings[2].command = <<>>
    /\ answering.allKeybindings[1].command # <<>>
    /\ holdsIn(answering.allKeybindings[1], out.context)
    /\ out.executed = <<>> /\ ~out.shouldPreventDefault

\* the second key-press of a chord that a rule with an empty command id disables
C29_WitnessChord ==
    /\ dispatched /\ out.chordBefore # NoChord
    /\ out.matched # 0 /\ answering.allKeybindings[out.matched].command = <<>>
    /\ out.executed = <<>> /\ currentChord = NoChord

----------------------------------------------------------------------------
(* Claims about the text of the default rules, under SpecText *)

\* the text of the defaults of a registry, rendered by a resolver that was
\* built with no overrides and has answered nothing
textOf(defaults) ==
    getDefaultKeybindings(KeybindingResolver(mapFromKeybindingItem(defaults, TRUE), <<>>, TRUE))

\* C23: the text getDefaultKeybindings returns is a function of the list of
\* defaults alone: whatever overrides, removal directives among them, the
\* resolver was built with, and whatever was dispatched or looked up before,
\* it is the text of the registry's defaults, so that two renderings of one
\* list are the same text.
C23_TextOfDefaultsAlone ==
    out.op = "getDefaultKeybindings" => out.text = textOf(registry)

\* a rendering by a resolver from which a removal directive has taken the
\* default that the text shows
C23_Witness ==
    /\ out.op = "getDefaultKeybindings"
    /\ Len(registry) = 1
    /\ Len(userConfig) = 1
    /\ answering.allKeybindings = <<>>
    /\ Len(out.text) = 4

----------------------------------------------------------------------------
(* Claims about the local links, under SpecLinks *)

\* C24: on either platform, a link of a supported form that a line holds
\* between two spaces, colons or semicolons, or in parentheses, is what the
\* expression of the platform matches as its first group: the link, without
\* the characters around it.
C24_LinkIsFirstGroup ==
    out.op = "match" => out.result = <<out.link>>

\* a Windows link with a drive and both separators between colons, matched
C24_Witness ==
    /\ out.op = "match"
    /\ out.platform = "Windows"
    /\ out.line = <<":", "c", ":", Backslash, "f", "o", "o", "/", "a", ":">>
    /\ out.result = <<out.link>>

\* a link after the root and a link after .. on a Unix-like platform, matched
C24_WitnessUnix ==
    /\ out.op = "match"
    /\ out.platform = "Linux"
    /\ out.line \in {<<"(", "/", "f", "o", "o", ")">>, <<";", ".", ".", "/", "a", ";">>}
    /\ out.result = <<out.link>>

----------------------------------------------------------------------------
(* Claims about whenIsEntirelyIncluded, under SpecWhen *)

\* C25: whenIsEntirelyIncluded is sound: when it returns true for a and b,
\* conjunctions of clauses or absent, every context in which a is true (an
\* absent condition is true in every context) is one in which b is true.
C25_IncludedImplies ==
    (out.op = "whenIsEntirelyIncluded" /\ out.result)
    => \A context \in SUBSET Clauses :
           contextMatchesRules(context, out.a) => contextMatchesRules(context, out.b)

\* true for two conditions that differ, b holding one clause of the two of a
C25_Witness ==
    /\ out.op = "whenIsEntirelyIncluded"
    /\ out.result
    /\ out.a = <<{"a", "b"}>>
    /\ out.b = <<{"a"}>>

====
